---------------------------- MODULE Spec2Model ----------------------------
(***************************************************************************)
(* BPMN-to-TEXT: the narrative renderer of src/bpmn_to_text.py.            *)
(*                                                                         *)
(* A document is a sequence of process elements plus the participants of   *)
(* its collaboration.  render_bpmn collects every process (nodes, flows,   *)
(* outgoing, incoming), then, process by process, emits the title line and *)
(* walks the graph from every start event.  The recursion of walk is kept  *)
(* as an explicit stack of frames; every frame holds the arguments and the *)
(* locals of one call.                                                     *)
(***************************************************************************)
EXTENDS Integers, Sequences, FiniteSets, TLC

(* ------------------------------ bounds --------------------------------- *)
\* element ids of the process explored by Spec are 1..MaxNodes
MaxNodes == 3
\* the process explored by Spec has at most MaxFlows sequenceFlow elements
MaxFlows == 4

VARIABLES
    doc,            \* the parsed input: [procs, participants, artifacts]
    filename,       \* the filename handed to render_bpmn_bytes
    tmp_stem,       \* stem of the temporary file render_bpmn reads
    pc,             \* position inside render_bpmn
    proc_info,      \* one collect_elements result per process
    pidx,           \* index of the process being rendered
    node_lane,      \* node id -> lane name of the current process
    start_events,   \* start event ids of the current process
    sidx,           \* index of the start event being walked
    lines,          \* lines of the current process block
    all_lines,      \* lines of the whole document
    stack,          \* frames of the calls of walk in progress
    branch_lines,   \* lines produced so far by the walk in progress
    number_map,     \* node id -> [num_str, parts]
    branch_state,   \* gateway id -> [next]
    result,         \* the string render_bpmn returned
    prev_result     \* the string an earlier call on the same input returned

vars == <<doc, filename, tmp_stem, pc, proc_info, pidx, node_lane,
          start_events, sidx, lines, all_lines, stack, branch_lines,
          number_map, branch_state, result, prev_result>>

(* --------------------------- small helpers ----------------------------- *)
\* dict.get(k, default)
Get(map, k, default) == IF k \in DOMAIN map THEN map[k] ELSE default

\* dict[k] = v
Put(map, k, v) == [x \in DOMAIN map \cup {k} |-> IF x = k THEN v ELSE map[x]]

EmptyMap == [x \in {} |-> 0]

Max(a, b) == IF a >= b THEN a ELSE b

\* "    " * n
RECURSIVE Spaces(_)
Spaces(n) == IF n <= 0 THEN "" ELSE "    " \o Spaces(n - 1)

\* sep.join(strs)
RECURSIVE Join(_, _)
Join(strs, sep) ==
    IF Len(strs) = 0 THEN ""
    ELSE IF Len(strs) = 1 THEN strs[1]
    ELSE strs[1] \o sep \o Join(Tail(strs), sep)

\* ids of a function with integer keys, in ascending (document) order
RECURSIVE SortedSeq(_)
SortedSeq(S) ==
    IF S = {} THEN <<>>
    ELSE LET m == CHOOSE x \in S : \A y \in S : x <= y
         IN <<m>> \o SortedSeq(S \ {m})

(* ----------------------------- tag tables ------------------------------ *)
TaskTags == {"task", "userTask", "serviceTask", "sendTask", "receiveTask", "manualTask"}
SubProcessTags == {"subProcess", "callActivity"}
GatewayTags == {"exclusiveGateway", "parallelGateway", "inclusiveGateway", "eventBasedGateway"}
EventTags == {"startEvent", "endEvent", "intermediateThrowEvent",
              "intermediateCatchEvent", "boundaryEvent"}

\* tag_map of collect_elements, with the label texts exactly as the source has them
tag_map ==
    [k \in TaskTags \cup SubProcessTags \cup GatewayTags \cup EventTags |->
        CASE k = "task" -> "Atividade"
          [] k = "userTask" -> "Atividade (usu?rio)"
          [] k = "serviceTask" -> "Atividade (servi?o)"
          [] k = "sendTask" -> "Atividade (envio)"
          [] k = "receiveTask" -> "Atividade (recebimento)"
          [] k = "manualTask" -> "Atividade (manual)"
          [] k = "subProcess" -> "Subprocesso"
          [] k = "callActivity" -> "Subprocesso (call activity)"
          [] k = "exclusiveGateway" -> "Gateway exclusivo"
          [] k = "parallelGateway" -> "Gateway paralelo"
          [] k = "inclusiveGateway" -> "Gateway inclusivo"
          [] k = "eventBasedGateway" -> "Gateway baseado em evento"
          [] k = "startEvent" -> "Evento de in?cio"
          [] k = "endEvent" -> "Evento de fim"
          [] k = "intermediateThrowEvent" -> "Evento intermedi?rio"
          [] k = "intermediateCatchEvent" -> "Evento intermedi?rio"
          [] k = "boundaryEvent" -> "Evento intermedi?rio (fronteira)"]

\* node["type"].startswith("Gateway"), over the labels tag_map can produce
StartsWithGateway(type) == type \in {tag_map[k] : k \in GatewayTags}

\* "Event" in kind
HasEvent(kind) == kind \in EventTags

\* task_kinds of walk: the label of the "Tipo:" detail
task_kinds ==
    [k \in TaskTags |->
        CASE k = "task" -> "Sem tipo"
          [] k = "userTask" -> "Atividade de Usuário"
          [] k = "serviceTask" -> "Atividade de Serviço"
          [] k = "sendTask" -> "Atividade de Envio"
          [] k = "receiveTask" -> "Atividade de Recebimento"
          [] k = "manualTask" -> "Atividade Manual"]

(* --------------------------- collect_elements -------------------------- *)
\* event_flavor(elem): kind and name of the first *EventDefinition child
event_flavor(elem) ==
    IF Len(elem.event_defs) > 0
    THEN <<elem.event_defs[1].kind, elem.event_defs[1].name>>
    ELSE <<"", "">>

\* the node built for one element (its catch_throw mark is set afterwards)
MakeNode(elem) ==
    LET fl == IF HasEvent(elem.tag) THEN event_flavor(elem) ELSE <<"", "">>
    IN [type |-> tag_map[elem.tag], name |-> elem.name, kind |-> elem.tag,
        event_flavor |-> fl[1], link_name |-> fl[2], catch_throw |-> ""]

\* ids of the elements of proc with the given tag, in document order
ElemsOfTag(proc, tag) ==
    SortedSeq({i \in DOMAIN proc.elems : proc.elems[i].tag = tag})

\* ids of the link events of one kind that carry the link name nm
LinkGroup(proc, tag, nm) ==
    SortedSeq({i \in DOMAIN proc.elems :
                 /\ proc.elems[i].tag = tag
                 /\ event_flavor(proc.elems[i])[2] = nm})

\* link_by_name[nm]
link_by_name(proc, nm) ==
    [catch |-> LinkGroup(proc, "intermediateCatchEvent", nm),
     throw |-> LinkGroup(proc, "intermediateThrowEvent", nm)]

\* the names of a list of link events, each once, in order of first use
RECURSIVE NamesOf(_, _, _)
NamesOf(proc, ids, seen) ==
    IF Len(ids) = 0 THEN <<>>
    ELSE LET nm == event_flavor(proc.elems[ids[1]])[2]
         IN IF nm = "" \/ nm \in seen
            THEN NamesOf(proc, Tail(ids), seen)
            ELSE <<nm>> \o NamesOf(proc, Tail(ids), seen \cup {nm})

\* the keys of link_by_name in insertion order: tag_map lists the throw
\* events before the catch events
LinkNames(proc) ==
    LET th == NamesOf(proc, ElemsOfTag(proc, "intermediateThrowEvent"), {})
        ca == NamesOf(proc, ElemsOfTag(proc, "intermediateCatchEvent"),
                      {th[i] : i \in 1..Len(th)})
    IN th \o ca

\* group['catch'] and group['throw']
Paired(proc, nm) ==
    /\ Len(link_by_name(proc, nm).catch) > 0
    /\ Len(link_by_name(proc, nm).throw) > 0

\* nodes, with captura/disparo marked only where a name has both sides
CollectNodes(proc) ==
    [i \in DOMAIN proc.elems |->
        LET n == MakeNode(proc.elems[i])
        IN IF n.link_name # "" /\ Paired(proc, n.link_name)
              /\ n.kind = "intermediateCatchEvent"
           THEN [n EXCEPT !.catch_throw = "captura"]
           ELSE IF n.link_name # "" /\ Paired(proc, n.link_name)
                   /\ n.kind = "intermediateThrowEvent"
           THEN [n EXCEPT !.catch_throw = "disparo"]
           ELSE n]

\* defaultdict(list)[k].append(v)
AppendTo(map, k, v) == Put(map, k, Append(Get(map, k, <<>>), v))

\* list.remove(v): drops the first occurrence
RECURSIVE RemoveFirst(_, _)
RemoveFirst(seq, v) ==
    IF Len(seq) = 0 THEN <<>>
    ELSE IF seq[1] = v THEN Tail(seq)
    ELSE <<seq[1]>> \o RemoveFirst(Tail(seq), v)

\* the id an input gives its i-th sequenceFlow unless it names it otherwise
FlowId(i) == "Flow_" \o ToString(i)

\* flows, outgoing and incoming as the loop over the sequenceFlow elements
\* builds them; no reference is validated
RECURSIVE BuildFlows(_, _, _)
BuildFlows(sfs, i, g) ==
    IF i > Len(sfs) THEN g
    ELSE LET sf == sfs[i]
             fl == [name |-> sf.name, source |-> sf.sourceRef,
                    target |-> sf.targetRef, is_link |-> FALSE]
         IN BuildFlows(sfs, i + 1,
                [flows |-> Put(g.flows, sf.id, fl),
                 outgoing |-> AppendTo(g.outgoing, sf.sourceRef, sf.id),
                 incoming |-> AppendTo(g.incoming, sf.targetRef, sf.id)])

\* the ids of the synthetic flows: f"_linkcatch_{cid}_{tgt}", f"_link_{tid}_{cid}"
LinkCatchId(cid, tgt) == "_linkcatch_" \o ToString(cid) \o "_" \o ToString(tgt)
LinkId(tid, cid) == "_link_" \o ToString(tid) \o "_" \o ToString(cid)

\* name of a synthetic flow
LinkLabel(nm) == IF nm # "" THEN "Link: " \o nm ELSE "Link"

\* a faulty redirection: only the first flow that targets tgt is retargeted
RedirectIncoming_first(g, incs, tgt, cid) ==
    IF Len(incs) = 0 THEN g
    ELSE LET inc == incs[1]
             inc1 == AppendTo(g.incoming, cid, inc)
         IN [g EXCEPT !.flows = Put(@, inc, [@[inc] EXCEPT !.target = cid]),
                      !.incoming = Put(inc1, tgt, RemoveFirst(inc1[tgt], inc))]

\* every flow that targets tgt is retargeted to the catch cid
RECURSIVE RedirectIncoming(_, _, _, _)
RedirectIncoming(g, incs, tgt, cid) ==
    IF Len(incs) = 0 THEN g
    ELSE LET inc == incs[1]
             inc1 == AppendTo(g.incoming, cid, inc)
             inc2 == Put(inc1, tgt, RemoveFirst(inc1[tgt], inc))
         IN RedirectIncoming(
                [g EXCEPT !.flows = Put(@, inc, [@[inc] EXCEPT !.target = cid]),
                          !.incoming = inc2],
                Tail(incs), tgt, cid)

\* the splice of catch cid behind the first outgoing flow of throw tid
SpliceAt(g, nm, cid, tid) ==
    LET first_out == g.outgoing[tid][1]
        tgt == g.flows[first_out].target
        g1 == RedirectIncoming(g, Get(g.incoming, tgt, <<>>), tgt, cid)
        outs == Get(g1.outgoing, cid, <<>>)
        flow_id == LinkCatchId(cid, tgt)
    IN IF \E k \in 1..Len(outs) : g1.flows[outs[k]].target = tgt
       THEN g1
       ELSE [flows |-> Put(g1.flows, flow_id,
                           [name |-> LinkLabel(nm), source |-> cid,
                            target |-> tgt, is_link |-> TRUE]),
             outgoing |-> AppendTo(g1.outgoing, cid, flow_id),
             incoming |-> AppendTo(g1.incoming, tgt, flow_id)]

\* for tid in group['throw']: the first throw that has an outgoing flow is used
RECURSIVE SpliceCatch(_, _, _, _)
SpliceCatch(g, nm, cid, throws) ==
    IF Len(throws) = 0 THEN g
    ELSE IF Len(Get(g.outgoing, throws[1], <<>>)) = 0
         THEN SpliceCatch(g, nm, cid, Tail(throws))
         ELSE SpliceAt(g, nm, cid, throws[1])

\* for cid in group['catch']: only a catch without incoming and outgoing
RECURSIVE SpliceCatches(_, _, _, _)
SpliceCatches(g, nm, catches, throws) ==
    IF Len(catches) = 0 THEN g
    ELSE LET cid == catches[1]
             g1 == IF Len(Get(g.incoming, cid, <<>>)) > 0 THEN g
                   ELSE IF Len(Get(g.outgoing, cid, <<>>)) > 0 THEN g
                   ELSE SpliceCatch(g, nm, cid, throws)
         IN SpliceCatches(g1, nm, Tail(catches), throws)

\* orphan-catch splicing, link name by link name
RECURSIVE SpliceOrphanCatches(_, _, _)
SpliceOrphanCatches(proc, names, g) ==
    IF Len(names) = 0 THEN g
    ELSE LET nm == names[1]
             grp == link_by_name(proc, nm)
             g1 == IF Paired(proc, nm)
                   THEN SpliceCatches(g, nm, grp.catch, grp.throw)
                   ELSE g
         IN SpliceOrphanCatches(proc, Tail(names), g1)

\* a faulty wiring: the throw tid is wired to the first catch of the name only
WireThrow_first(g, nm, tid, catches) ==
    IF Len(catches) = 0 THEN g
    ELSE LET flow_id == LinkId(tid, catches[1])
         IN [flows |-> Put(g.flows, flow_id,
                           [name |-> LinkLabel(nm), source |-> tid,
                            target |-> catches[1], is_link |-> TRUE]),
             outgoing |-> AppendTo(g.outgoing, tid, flow_id),
             incoming |-> AppendTo(g.incoming, catches[1], flow_id)]

\* one synthetic flow from the throw tid to every catch of the name
RECURSIVE WireThrow(_, _, _, _)
WireThrow(g, nm, tid, catches) ==
    IF Len(catches) = 0 THEN g
    ELSE LET cid == catches[1]
             flow_id == LinkId(tid, cid)
         IN WireThrow(
                [flows |-> Put(g.flows, flow_id,
                               [name |-> LinkLabel(nm), source |-> tid,
                                target |-> cid, is_link |-> TRUE]),
                 outgoing |-> AppendTo(g.outgoing, tid, flow_id),
                 incoming |-> AppendTo(g.incoming, cid, flow_id)],
                nm, tid, Tail(catches))

\* for tid in group['throw']: only a throw without outgoing flow
RECURSIVE WireThrows(_, _, _, _)
WireThrows(g, nm, throws, catches) ==
    IF Len(throws) = 0 THEN g
    ELSE LET tid == throws[1]
             g1 == IF Len(Get(g.outgoing, tid, <<>>)) > 0 THEN g
                   ELSE WireThrow(g, nm, tid, catches)
         IN WireThrows(g1, nm, Tail(throws), catches)

\* a faulty dead-throw wiring: a throw without outgoing flow is wired to the
\* catch events of every link name
RECURSIVE WireDeadThrows_any(_, _, _)
WireDeadThrows_any(proc, names, g) ==
    IF Len(names) = 0 THEN g
    ELSE WireDeadThrows_any(proc, Tail(names),
             WireThrows(g, names[1], link_by_name(proc, names[1]).throw,
                        ElemsOfTag(proc, "intermediateCatchEvent")))

\* dead-throw wiring, link name by link name
RECURSIVE WireDeadThrows(_, _, _)
WireDeadThrows(proc, names, g) ==
    IF Len(names) = 0 THEN g
    ELSE LET nm == names[1]
             grp == link_by_name(proc, nm)
             g1 == IF Paired(proc, nm)
                   THEN WireThrows(g, nm, grp.throw, grp.catch)
                   ELSE g
         IN WireDeadThrows(proc, Tail(names), g1)

\* collect_elements(proc): nodes, flows, outgoing, incoming
collect_elements(proc) ==
    LET g0 == BuildFlows(proc.flows, 1,
                  [flows |-> EmptyMap, outgoing |-> EmptyMap, incoming |-> EmptyMap])
        g1 == SpliceOrphanCatches(proc, LinkNames(proc), g0)
        g2 == WireDeadThrows(proc, LinkNames(proc), g1)
    IN [nodes |-> CollectNodes(proc), flows |-> g2.flows,
        outgoing |-> g2.outgoing, incoming |-> g2.incoming]

(* ----------------------------- collect_lanes --------------------------- *)
\* node_lane of collect_lanes: a later lane overwrites an earlier binding
RECURSIVE collect_lanes(_, _)
collect_lanes(lanes, acc) ==
    IF Len(lanes) = 0 THEN acc
    ELSE LET lname == IF lanes[1].name # "" THEN lanes[1].name ELSE "(sem ator)"
         IN collect_lanes(Tail(lanes),
                [x \in DOMAIN acc \cup lanes[1].refs |->
                    IF x \in lanes[1].refs THEN lname ELSE acc[x]])

\* lane_name of collect_lanes: the name of every lane that has an id (a
\* lane without id attribute, or with an empty one, is a record without id)
RECURSIVE lane_name(_, _)
lane_name(lanes, acc) ==
    IF Len(lanes) = 0 THEN acc
    ELSE LET lname == IF lanes[1].name # "" THEN lanes[1].name ELSE "(sem ator)"
         IN lane_name(Tail(lanes),
                IF "id" \in DOMAIN lanes[1]
                THEN Put(acc, lanes[1].id, lname)
                ELSE acc)

(* --------------------------- lanes by geometry -------------------------- *)
\* d[k] = v on a dict kept as the list of its items in insertion order
OrderedPut(d, k, v) ==
    IF \E i \in 1..Len(d) : d[i][1] = k
    THEN [i \in 1..Len(d) |-> IF d[i][1] = k THEN <<k, v>> ELSE d[i]]
    ELSE Append(d, <<k, v>>)

\* the di:BPMNShape elements of the document, in document order
Shapes(d) == IF "shapes" \in DOMAIN d THEN d.shapes ELSE <<>>

\* collect_di_bounds, for the ids of the nodes or of the lanes: the Bounds
\* (x, y, width, height) of the shapes whose bpmnElement is one of the ids
RECURSIVE collect_di_bounds(_, _, _)
collect_di_bounds(shapes, ids, acc) ==
    IF Len(shapes) = 0 THEN acc
    ELSE collect_di_bounds(Tail(shapes), ids,
             IF shapes[1].bpmnElement \in ids
             THEN OrderedPut(acc, shapes[1].bpmnElement, shapes[1].bounds)
             ELSE acc)

\* rect_contains(rect, point)
rect_contains(rect, point) ==
    /\ rect[1] <= point[1] /\ point[1] <= rect[1] + rect[3]
    /\ rect[2] <= point[2] /\ point[2] <= rect[2] + rect[4]

Min(a, b) == IF a <= b THEN a ELSE b

\* rect_intersection_area(a, b)
rect_intersection_area(a, b) ==
    LET x_overlap == Max(0, Min(a[1] + a[3], b[1] + b[3]) - Max(a[1], b[1]))
        y_overlap == Max(0, Min(a[2] + a[4], b[2] + b[4]) - Max(a[2], b[2]))
    IN x_overlap * y_overlap

\* a faulty sort key: among equal intersections the larger lane comes first
OverlapBefore_larger(a, b) == a[1] > b[1] \/ (a[1] = b[1] /\ a[2] > b[2])

\* the sort key (-inter, lane area) of a puts it before b
OverlapBefore(a, b) == a[1] > b[1] \/ (a[1] = b[1] /\ a[2] < b[2])

\* the position in overlaps of its first item after the stable sort
FirstOverlap(items) ==
    CHOOSE i \in 1..Len(items) :
        \A j \in 1..Len(items) :
            /\ ~OverlapBefore(items[j], items[i])
            /\ j < i => OverlapBefore(items[i], items[j])

\* the sort key (lane area) of a puts it before b
AreaBefore(a, b) == a[1] < b[1]

\* the position in candidates of its first item after the stable sort
FirstCandidate(items) ==
    CHOOSE i \in 1..Len(items) :
        \A j \in 1..Len(items) :
            /\ ~AreaBefore(items[j], items[i])
            /\ j < i => AreaBefore(items[i], items[j])

\* the lane one node gets from its bounds, or "" for none: the lane of the
\* largest intersection and, when no lane intersects it, the smallest lane
\* that contains its centre (widths and heights are even numbers here, so
\* that the centre has whole coordinates)
LaneByBounds(rect, names, lane_bounds) ==
    LET all == [i \in 1..Len(lane_bounds) |->
                   <<rect_intersection_area(rect, lane_bounds[i][2]),
                     lane_bounds[i][2][3] * lane_bounds[i][2][4], lane_bounds[i][1]>>]
        Positive(t) == t[1] > 0
        overlaps == SelectSeq(all, Positive)
        centre == <<rect[1] + rect[3] \div 2, rect[2] + rect[4] \div 2>>
        around == [i \in 1..Len(lane_bounds) |->
                      <<lane_bounds[i][2][3] * lane_bounds[i][2][4], lane_bounds[i][1],
                        rect_contains(lane_bounds[i][2], centre)>>]
        Contains3(t) == t[3]
        candidates == SelectSeq(around, Contains3)
    IN IF Len(overlaps) > 0
       THEN LET first == overlaps[FirstOverlap(overlaps)]
                ties == {i \in 1..Len(overlaps) : overlaps[i][1] = first[1]}
                name == Get(names, first[3], "(ator nao identificado)")
            IN IF Cardinality(ties) > 1 THEN name \o " (ambiguo)" ELSE name
       ELSE IF Len(candidates) > 0
       THEN LET name == Get(names, candidates[FirstCandidate(candidates)][2],
                            "(ator nao identificado)")
            IN IF Len(candidates) > 1 THEN name \o " (ambiguo)" ELSE name
       ELSE ""

\* infer_lane_by_di: its result after the loop over node_bounds; a node that
\* flowNodeRef binds to a lane is passed over
RECURSIVE infer_lane_by_di(_, _, _, _)
infer_lane_by_di(mapped, names, node_bounds, lane_bounds) ==
    IF Len(node_bounds) = 0 THEN mapped
    ELSE LET node_id == node_bounds[1][1]
             name == LaneByBounds(node_bounds[1][2], names, lane_bounds)
         IN infer_lane_by_di(
                IF node_id \in DOMAIN mapped \/ name = "" THEN mapped
                ELSE Put(mapped, node_id, name),
                names, Tail(node_bounds), lane_bounds)

(* ------------------------- numbering and labels ------------------------ *)
\* format_number(parts): ".".join(str(p) for p in parts)
RECURSIVE format_number(_)
format_number(parts) ==
    IF Len(parts) = 0 THEN ""
    ELSE IF Len(parts) = 1 THEN ToString(parts[1])
    ELSE ToString(parts[1]) \o "." \o format_number(Tail(parts))

\* a faulty compare_parts: a proper prefix counts as the greater list
RECURSIVE compare_parts_prefix_greater(_, _)
compare_parts_prefix_greater(a, b) ==
    IF Len(a) > 0 /\ Len(b) > 0
    THEN IF a[1] < b[1] THEN -1
         ELSE IF a[1] > b[1] THEN 1
         ELSE compare_parts_prefix_greater(Tail(a), Tail(b))
    ELSE IF Len(a) = Len(b) THEN 0
    ELSE IF Len(a) < Len(b) THEN 1 ELSE -1

\* compare_parts(a, b): -1, 0 or 1
RECURSIVE compare_parts(_, _)
compare_parts(a, b) ==
    IF Len(a) > 0 /\ Len(b) > 0
    THEN IF a[1] < b[1] THEN -1
         ELSE IF a[1] > b[1] THEN 1
         ELSE compare_parts(Tail(a), Tail(b))
    ELSE IF Len(a) = Len(b) THEN 0
    ELSE IF Len(a) < Len(b) THEN -1 ELSE 1

\* describe_node(node)
describe_node(node) ==
    LET name == node.name
        is_gateway == StartsWithGateway(node.type)
        is_event == HasEvent(node.kind)
        catch_throw == IF node.kind = "intermediateCatchEvent" THEN "captura"
                       ELSE IF node.kind = "intermediateThrowEvent" THEN "disparo"
                       ELSE ""
        display == IF name # "" THEN name ELSE "(sem nome)"
        flavor == node.event_flavor
        type_label ==
            IF flavor = "link" /\ catch_throw # ""
            THEN "Evento intermediário (link, " \o catch_throw \o ")"
            ELSE IF flavor # "" /\ catch_throw # ""
            THEN node.type \o " (" \o flavor \o ", " \o catch_throw \o ")"
            ELSE IF flavor # "" THEN node.type \o " (" \o flavor \o ")"
            ELSE IF catch_throw # "" THEN node.type \o " (" \o catch_throw \o ")"
            ELSE node.type
    IN IF node.kind \in TaskTags THEN "Atividade: " \o display
       ELSE IF is_gateway /\ name = "" THEN node.type
       ELSE IF is_event THEN type_label \o ": " \o display
       ELSE node.type \o ": " \o display

\* the label of a cross-reference to an already numbered node
RefLabel(prev_parts, numbering) ==
    LET cmp == compare_parts(prev_parts, numbering)
    IN IF cmp < 0 THEN "retorna para"
       ELSE IF cmp > 0 THEN "avança para"
       ELSE "referência"

\* f"{indent}({label} {num})"
MarkerLine(numbering, label, num) ==
    Spaces(Len(numbering) - 1) \o "(" \o label \o " " \o num \o ")"

\* a faulty header: indented one level deeper
HeaderLine_deeper(numbering, desc) ==
    Spaces(Len(numbering)) \o format_number(numbering) \o ". " \o desc

\* f"{indent}{num_str}. {desc}"
HeaderLine(numbering, desc) ==
    Spaces(Len(numbering) - 1) \o format_number(numbering) \o ". " \o desc

\* a faulty next_number: the last part is not increased
NextNumber_same(numbering) == numbering

\* a faulty next_number: the last part is decreased
NextNumber_back(numbering) ==
    [numbering EXCEPT ![Len(numbering)] = @ - 1]

\* next_number = numbering[:-1] + [numbering[-1] + 1]
NextNumber(numbering) ==
    [numbering EXCEPT ![Len(numbering)] = @ + 1]

\* numbering + [child_num, 1]
ChildNumbering(numbering, child_num) == numbering \o <<child_num, 1>>

\* f"{branch_idx:02d}"
TwoDigits(n) == IF n < 10 THEN "0" \o ToString(n) ELSE ToString(n)

\* the label of a branch of a diverging gateway
BranchLabel(node, flow, branch_idx, child_num) ==
    IF flow.name = "" /\ node.kind = "parallelGateway"
    THEN "Caminho " \o TwoDigits(branch_idx)
    ELSE IF flow.name # "" THEN flow.name
    ELSE "Caminho " \o ToString(child_num)

(* ---------------------- artifact lines of a node ----------------------- *)
\* the texts of documents and systems the explored documents use, in the
\* order sorted() gives them
TextOrder == <<"Contrato", "ERP", "SAP">>

\* _clean_note(text): " ".join(text.split()), over the notes explored
_clean_note(text) ==
    CASE text = "nota  dupla" -> "nota dupla"
      [] text = "  " -> ""
      [] OTHER -> text

\* sorted({text for label, text in arts if label == wanted})
SortedTexts(arts, wanted) ==
    LET have == {arts[i][2] : i \in {j \in 1..Len(arts) : arts[j][1] = wanted}}
    IN SelectSeq(TextOrder, LAMBDA t : t \in have)

\* the distinct cleaned notes in first-seen order
RECURSIVE Notes(_, _)
Notes(arts, seen) ==
    IF Len(arts) = 0 THEN <<>>
    ELSE LET key == _clean_note(arts[1][2])
         IN IF arts[1][1] = "Anotação" /\ key # "" /\ key \notin seen
            THEN <<key>> \o Notes(Tail(arts), seen \cup {key})
            ELSE Notes(Tail(arts), seen)

\* the lines walk emits for the artifacts attached to a node
ArtifactLines(numbering, arts) ==
    LET info_indent == Spaces(Len(numbering))
        docs == SortedTexts(arts, "Documento")
        systems == SortedTexts(arts, "Sistema")
        notes == Notes(arts, {})
        parts == (IF Len(systems) > 0
                  THEN <<"Sistema: " \o Join(systems, ", ")>> ELSE <<>>)
                 \o (IF Len(docs) > 0
                     THEN <<"Documento: " \o Join(docs, ", ")>> ELSE <<>>)
    IN (IF Len(parts) > 0 THEN <<info_indent \o Join(parts, " | ")>> ELSE <<>>)
       \o [i \in 1..Len(notes) |-> info_indent \o "Anotação: \"" \o notes[i] \o "\""]

\* the detail line under a task or a subprocess
ActorLines(numbering, node, node_id, lane) ==
    LET detail_indent == Spaces(Len(numbering))
        actor == Get(lane, node_id, "(ator nao identificado)")
    IN IF node.kind \in TaskTags
       THEN <<detail_indent \o "Ator: " \o actor \o " | Tipo: " \o task_kinds[node.kind]>>
       ELSE IF node.kind \in SubProcessTags
       THEN <<detail_indent \o "Ator: " \o actor>>
       ELSE <<>>

(* ------------------------------- walk ---------------------------------- *)
\* the arguments nodes, flows, outgoing, incoming, artifacts of walk
nodes == proc_info[pidx].nodes
flows == proc_info[pidx].flows
outgoing == proc_info[pidx].outgoing
incoming == proc_info[pidx].incoming
artifacts == doc.artifacts

\* a frame of walk: its arguments node_id, numbering and path_set, the place
\* it has reached (at), the position in the loop over outs (i) and last_used
Frame(node_id, numbering, path_set) ==
    [node_id |-> node_id, numbering |-> numbering, path_set |-> path_set,
     at |-> "entry", i |-> 0, last_used |-> numbering]

top == stack[Len(stack)]

\* the stack with its top frame replaced
SetTop(f) == [stack EXCEPT ![Len(stack)] = f]

\* outs = outgoing.get(node_id, [])
Outs(node_id) == Get(outgoing, node_id, <<>>)

\* is_diverging_gateway
is_diverging_gateway(node_id) ==
    /\ StartsWithGateway(nodes[node_id].type)
    /\ Len(Outs(node_id)) > 1

\* a faulty is_converging_gateway: two incoming flows are not enough
is_converging_gateway_three(node_id) ==
    /\ StartsWithGateway(nodes[node_id].type)
    /\ Len(Get(incoming, node_id, <<>>)) > 2
    /\ Len(Outs(node_id)) = 1

\* is_converging_gateway
is_converging_gateway(node_id) ==
    /\ StartsWithGateway(nodes[node_id].type)
    /\ Len(Get(incoming, node_id, <<>>)) > 1
    /\ Len(Outs(node_id)) = 1
    /\ ~is_diverging_gateway(node_id)

\* is_parallel_convergence
is_parallel_convergence(node_id) ==
    /\ is_converging_gateway(node_id)
    /\ nodes[node_id].kind = "parallelGateway"

\* the gateway is passed without a line of its own
SkipsLine(node_id) ==
    /\ is_converging_gateway(node_id)
    /\ Len(Outs(node_id)) > 0
    /\ ~is_parallel_convergence(node_id)

\* a faulty record: the node is not entered into number_map
Record_none(map, node_id, numbering) == map

\* a faulty record: the entries made before are dropped
Record_alone(map, node_id, numbering) ==
    node_id :> [num_str |-> format_number(numbering), parts |-> numbering]

\* number_map[node_id] = {"num_str": num_str, "parts": numbering}
Record(map, node_id, numbering) ==
    Put(map, node_id, [num_str |-> format_number(numbering), parts |-> numbering])

\* the header line and the detail lines of a node
NodeLines(node_id, numbering) ==
    LET node == nodes[node_id]
        desc == IF is_parallel_convergence(node_id)
                THEN "Fim do Gateway Paralelo (convergência)"
                ELSE describe_node(node)
    IN <<HeaderLine(numbering, desc)>>
       \o ActorLines(numbering, node, node_id, node_lane)
       \o ArtifactLines(numbering, Get(artifacts, node_id, <<>>))

\* the line of a node that is on the current path
LoopLine(numbering) == MarkerLine(numbering, "loop em", format_number(numbering))

\* a faulty cross-reference: the number of the call in place of the recorded one
RefLine_own(prev, numbering) ==
    MarkerLine(numbering, RefLabel(prev.parts, numbering), format_number(numbering))

\* the line of a node that is numbered already
RefLine(prev, numbering) ==
    MarkerLine(numbering, RefLabel(prev.parts, numbering), prev.num_str)

\* a faulty update of state["next"]: the last part of last_num is read in
\* place of the part that follows the gateway's numbering
BumpNext_last(next, numbering, last_num) ==
    IF Len(last_num) > Len(numbering)
    THEN Max(next, last_num[Len(last_num)] + 1)
    ELSE next

\* state["next"] after the branch that returned last_num
BumpNext(next, numbering, last_num) ==
    IF Len(last_num) > Len(numbering)
    THEN Max(next, last_num[Len(numbering) + 1] + 1)
    ELSE next

\* A call has returned last_num to the callers in st.  A caller that waits
\* for its only recursive call returns last_num in turn; a diverging gateway
\* stores it in last_used, moves state["next"] and goes on to its next
\* outgoing flow, or returns last_used after the last one.
RECURSIVE Unwind(_, _, _)
Unwind(st, last_num, bs) ==
    IF Len(st) = 0 THEN [stack |-> st, branch_state |-> bs]
    ELSE LET f == st[Len(st)]
             callers == SubSeq(st, 1, Len(st) - 1)
         IN IF f.at = "div_wait"
            THEN LET bs1 == [bs EXCEPT ![f.node_id].next =
                                 BumpNext(@, f.numbering, last_num)]
                 IN IF f.i + 1 > Len(Get(outgoing, f.node_id, <<>>))
                    THEN Unwind(callers, last_num, bs1)
                    ELSE [stack |-> Append(callers,
                                       [f EXCEPT !.last_used = last_num,
                                                 !.i = f.i + 1,
                                                 !.at = "div_loop"]),
                          branch_state |-> bs1]
            ELSE Unwind(callers, last_num, bs)

\* return lines, last_num
Returns(last_num, bs) ==
    LET u == Unwind(SubSeq(stack, 1, Len(stack) - 1), last_num, bs)
    IN /\ stack' = u.stack
       /\ branch_state' = u.branch_state

\* walk(node_id, numbering, ..., new_path, ...) is called by the top frame,
\* which waits for it at the place given
Calls(at, node_id, numbering) ==
    stack' = Append(SetTop([top EXCEPT !.at = at]),
                    Frame(node_id, numbering, top.path_set \cup {top.node_id}))

\* The body of walk from its first line to its first recursive call, to the
\* head of its loop over outs, or to its return.  The lines of a call are
\* appended to branch_lines as they are made: a caller extends its lines by
\* the lines of a call before it makes any further line.
WalkEntry ==
    /\ pc = "walk"
    /\ Len(stack) > 0
    /\ top.at = "entry"
    /\ LET node_id == top.node_id
           numbering == top.numbering
       IN IF node_id \notin DOMAIN nodes
          THEN \* unknown node
               /\ Returns(numbering, branch_state)
               /\ UNCHANGED <<branch_lines, number_map>>
          ELSE IF node_id \in DOMAIN number_map
          THEN /\ branch_lines' = Append(branch_lines,
                                         RefLine(number_map[node_id], numbering))
               /\ Returns(numbering, branch_state)
               /\ UNCHANGED number_map
          ELSE IF node_id \in top.path_set
          THEN /\ branch_lines' = Append(branch_lines, LoopLine(numbering))
               /\ Returns(numbering, branch_state)
               /\ UNCHANGED number_map
          ELSE IF SkipsLine(node_id)
          THEN /\ number_map' = Record(number_map, node_id, numbering)
               /\ Calls("conv", flows[Outs(node_id)[1]].target, numbering)
               /\ UNCHANGED <<branch_lines, branch_state>>
          ELSE /\ branch_lines' = branch_lines \o NodeLines(node_id, numbering)
               /\ number_map' = Record(number_map, node_id, numbering)
               /\ IF is_diverging_gateway(node_id)
                  THEN \* state = branch_state.setdefault(node_id, {"next": 1})
                       /\ branch_state' =
                              IF node_id \in DOMAIN branch_state THEN branch_state
                              ELSE Put(branch_state, node_id, [next |-> 1])
                       /\ stack' = SetTop([top EXCEPT !.at = "div_loop", !.i = 1])
                  ELSE IF Len(Outs(node_id)) = 1
                  THEN /\ Calls("single", flows[Outs(node_id)[1]].target,
                                NextNumber(numbering))
                       /\ UNCHANGED branch_state
                  ELSE Returns(numbering, branch_state)
    /\ UNCHANGED <<doc, filename, tmp_stem, pc, proc_info, pidx, node_lane,
                   start_events, sidx, lines, all_lines, result, prev_result>>

\* one turn of the loop over the outgoing flows of a diverging gateway, up
\* to the recursive call
WalkBranch ==
    /\ pc = "walk"
    /\ Len(stack) > 0
    /\ top.at = "div_loop"
    /\ LET node_id == top.node_id
           flow == flows[Outs(node_id)[top.i]]
           child_num == branch_state[node_id].next
       IN /\ branch_state' = [branch_state EXCEPT ![node_id].next = @ + 1]
          /\ branch_lines' = Append(branch_lines,
                 Spaces(Len(top.numbering)) \o "Caso "
                     \o BranchLabel(nodes[node_id], flow, top.i, child_num) \o ":")
          /\ Calls("div_wait", flow.target,
                   ChildNumbering(top.numbering, child_num))
    /\ UNCHANGED <<doc, filename, tmp_stem, pc, proc_info, pidx, node_lane,
                   start_events, sidx, lines, all_lines, number_map,
                   result, prev_result>>

(* ---------------------------- render_bpmn ------------------------------ *)
NoResult == "(nenhum)"

\* names NamedTemporaryFile can give the temporary file of render_bpmn_bytes
TmpStems == {"tmpa1b2c3", "tmpx7y8z9"}

\* participant_by_proc: the last participant that refers to a process wins
RECURSIVE participant_by_proc(_, _)
participant_by_proc(parts, acc) ==
    IF Len(parts) = 0 THEN acc
    ELSE participant_by_proc(Tail(parts),
             IF parts[1].processRef # ""
             THEN Put(acc, parts[1].processRef, parts[1].name)
             ELSE acc)

\* a faulty title: the participant's name is taken before the process's name
Title_participant_first(proc, stem) ==
    LET by_proc == Get(participant_by_proc(doc.participants, EmptyMap), proc.id, "")
    IN IF by_proc # "" THEN by_proc
       ELSE IF proc.name # "" THEN proc.name
       ELSE stem

\* title = name of the process, or of its participant, or path.stem
Title(proc, stem) ==
    LET by_proc == Get(participant_by_proc(doc.participants, EmptyMap), proc.id, "")
    IN IF proc.name # "" THEN proc.name
       ELSE IF by_proc # "" THEN by_proc
       ELSE stem

\* the title reads path.stem
ReadsStem(proc) == Title(proc, "") = ""

\* "\n".join(all_lines).rstrip(), for lines that end in no white space
RECURSIVE RStripLines(_)
RStripLines(ls) ==
    IF Len(ls) > 0 /\ ls[Len(ls)] = ""
    THEN RStripLines(SubSeq(ls, 1, Len(ls) - 1))
    ELSE ls

\* render_bpmn up to the loop over the processes: the collaboration is read
\* and every process is collected
RenderBegin ==
    /\ pc = "begin"
    /\ IF Len(doc.procs) = 0
       THEN /\ pc' = "error"
            /\ result' = "ValueError: Nenhum processo encontrado no BPMN."
            /\ UNCHANGED <<proc_info, pidx>>
       ELSE /\ proc_info' = [i \in 1..Len(doc.procs) |-> collect_elements(doc.procs[i])]
            /\ pidx' = 1
            /\ pc' = "process"
            /\ UNCHANGED result
    /\ UNCHANGED <<doc, filename, tmp_stem, node_lane, start_events, sidx, lines,
                   all_lines, stack, branch_lines, number_map, branch_state,
                   prev_result>>

\* walk(start_id, [idx], nodes, ..., set(), {}, {}, artifacts) is called
BeginWalk(idx) ==
    /\ stack' = <<Frame(start_events'[idx], <<idx>>, {})>>
    /\ number_map' = EmptyMap
    /\ branch_state' = EmptyMap
    /\ branch_lines' = <<>>

\* One turn of the loop over proc_info up to the first call of walk; a
\* process without start event is passed over.  The name of the temporary
\* file is drawn when render_bpmn_bytes creates it; the draw is fixed here,
\* at the first place that reads it.
ProcessBegin ==
    /\ pc = "process"
    /\ pidx <= Len(doc.procs)
    /\ LET proc == doc.procs[pidx]
           starts == ElemsOfTag(proc, "startEvent")
           names == lane_name(proc.lanes, EmptyMap)
       IN /\ node_lane' =
                 infer_lane_by_di(
                     collect_lanes(proc.lanes, EmptyMap), names,
                     collect_di_bounds(Shapes(doc), DOMAIN proc.elems, <<>>),
                     collect_di_bounds(Shapes(doc), DOMAIN names, <<>>))
          /\ start_events' = starts
          /\ IF Len(starts) = 0
             THEN /\ pidx' = pidx + 1
                  /\ UNCHANGED <<pc, sidx, lines, tmp_stem, stack, number_map,
                                 branch_state, branch_lines>>
             ELSE /\ \E stem \in (IF ReadsStem(proc) /\ tmp_stem = ""
                                  THEN TmpStems ELSE {tmp_stem}) :
                        /\ tmp_stem' = stem
                        /\ lines' = <<"Titulo: " \o Title(proc, stem)>>
                  /\ sidx' = 1
                  /\ BeginWalk(1)
                  /\ pc' = "walk"
                  /\ UNCHANGED pidx
    /\ UNCHANGED <<doc, filename, proc_info, all_lines, result, prev_result>>

\* The walk from a start event has returned: lines.extend(branch_lines).
\* The next start event is walked, or, after the last one, the block of the
\* process is closed: all_lines.extend(lines) and the separator line.
WalkDone ==
    /\ pc = "walk"
    /\ Len(stack) = 0
    /\ UNCHANGED <<doc, filename, tmp_stem, proc_info, node_lane, start_events,
                   result, prev_result>>
    /\ IF sidx < Len(start_events)
       THEN /\ lines' = lines \o branch_lines
            /\ sidx' = sidx + 1
            /\ BeginWalk(sidx + 1)
            /\ UNCHANGED <<pc, pidx, all_lines>>
       ELSE /\ all_lines' = all_lines \o lines \o branch_lines \o <<"">>
            /\ pidx' = pidx + 1
            /\ pc' = "process"
            /\ UNCHANGED <<lines, sidx, stack, number_map, branch_state, branch_lines>>

\* render_bpmn returns the joined lines (the documents explored have no
\* messageFlow element and no unattached annotation)
RenderEnd ==
    /\ pc = "process"
    /\ pidx > Len(doc.procs)
    /\ result' = Join(RStripLines(all_lines), "\n")
    /\ pc' = "done"
    /\ UNCHANGED <<doc, filename, tmp_stem, proc_info, pidx, node_lane,
                   start_events, sidx, lines, all_lines, stack,
                   branch_lines, number_map, branch_state, prev_result>>

(* ------------------------------- inputs -------------------------------- *)
Elem(tag, name) == [tag |-> tag, name |-> name, event_defs |-> <<>>]

\* the state before render_bpmn_bytes is called on document d
Start(d, fname) ==
    /\ doc = d
    /\ filename = fname
    /\ tmp_stem = ""
    /\ pc = "begin"
    /\ proc_info = <<>>
    /\ pidx = 0
    /\ node_lane = EmptyMap
    /\ start_events = <<>>
    /\ sidx = 0
    /\ lines = <<>>
    /\ all_lines = <<>>
    /\ stack = <<>>
    /\ branch_lines = <<>>
    /\ number_map = EmptyMap
    /\ branch_state = EmptyMap
    /\ result = NoResult
    /\ prev_result = NoResult

\* kinds of the flow nodes 2..n of the process Spec explores
WalkKinds == {"userTask", "exclusiveGateway", "parallelGateway"}

\* every second sequenceFlow carries a name
FlowName(k) == IF k % 2 = 1 THEN "" ELSE "F" \o ToString(k)

\* the order in which the kinds of the flow nodes 2..n are listed
KindRank(kind) ==
    CASE kind = "userTask" -> 1
      [] kind = "exclusiveGateway" -> 2
      [] kind = "parallelGateway" -> 3

\* the flows of fl that leave s
FlowsFrom(fl, s) == {k \in 1..Len(fl) : fl[k][1] = s}

\* the id s is the id of a gateway
IsGateway(kinds, s) == s \in DOMAIN kinds /\ kinds[s] \in GatewayTags

\* the node s of a process with these kinds has its flows followed by walk:
\* all of them when it is a gateway with several, the only one otherwise
Follows(kinds, fl, s) ==
    \/ Cardinality(FlowsFrom(fl, s)) = 1
    \/ IsGateway(kinds, s) /\ Cardinality(FlowsFrom(fl, s)) > 1

\* the nodes the walk from the nodes in S comes to
RECURSIVE Walked(_, _, _)
Walked(kinds, fl, S) ==
    LET T == S \cup ({fl[k][2] : k \in {j \in 1..Len(fl) :
                                           /\ fl[j][1] \in S
                                           /\ Follows(kinds, fl, fl[j][1])}} \ {0})
    IN IF T = S THEN S ELSE Walked(kinds, fl, T)

\* the lists of m ids lo..n in ascending order
RECURSIVE Ascending(_, _, _)
Ascending(m, lo, n) ==
    IF m = 0 THEN {<<>>}
    ELSE UNION {{<<s>> \o t : t \in Ascending(m - 1, s, n)} : s \in lo..n}

\* The processes Spec explores: the start event 1, the flow nodes 2..n and
\* flows between the ids 0..n, where 0 is the id of no flow node (a flow to
\* it dangles, a flow from it only adds to incoming).  One process of every
\* class the walk cannot tell apart is taken:
\*   - the ids 2..n are interchangeable, so the kinds are listed in
\*     ascending KindRank;
\*   - walk reads the flows source by source, so the flows are listed in
\*     ascending sourceRef;
\*   - a flow that leaves a node the walk does not come to is read for the
\*     length of incoming only, as a flow from 0 is, so every flow leaves 0
\*     or a node the walk comes to;
\*   - a node that is the target of no such flow is never read, so every
\*     node is one;
\*   - the flows that leave 0 or a node that is no gateway are counted, or
\*     the only one is followed, so they are listed in ascending targetRef.
KindLists(n) ==
    {kinds \in [2..n -> WalkKinds] :
        \A j \in 2..(n - 1) : KindRank(kinds[j]) <= KindRank(kinds[j + 1])}

Explored(n, kinds, fl) ==
    /\ Len(fl) > 0 => fl[1][1] <= 1
    /\ \A k \in 1..Len(fl) : fl[k][1] = 0 => fl[k][2] # 0
    /\ 2..n \subseteq {fl[k][2] : k \in {j \in 1..Len(fl) : fl[j][1] # 0}}
    /\ \A k \in 1..(Len(fl) - 1) :
          (fl[k][1] = fl[k + 1][1] /\ ~IsGateway(kinds, fl[k][1]))
              => fl[k][2] <= fl[k + 1][2]
    /\ {fl[k][1] : k \in 1..Len(fl)} \subseteq Walked(kinds, fl, {1}) \cup {0}

\* a process with the start event 1 and the flow nodes and flows given
WalkProc(n, kinds, fl) ==
    [id |-> "Process_1", name |-> "Processo",
     elems |-> [i \in 1..n |->
                   IF i = 1 THEN Elem("startEvent", "Início")
                   ELSE Elem(kinds[i], IF kinds[i] \in GatewayTags THEN ""
                                       ELSE "T" \o ToString(i))],
     flows |-> [k \in 1..Len(fl) |->
                   [id |-> FlowId(k), name |-> FlowName(k),
                    sourceRef |-> fl[k][1], targetRef |-> fl[k][2]]],
     lanes |-> <<>>]

Init ==
    \E n \in 1..MaxNodes : \E kinds \in KindLists(n) : \E m \in 0..MaxFlows :
        \E src \in Ascending(m, 0, n) : \E tgt \in [1..m -> 0..n] :
            LET fl == [k \in 1..m |-> <<src[k], tgt[k]>>]
            IN /\ Explored(n, kinds, fl)
               /\ Start([procs |-> <<WalkProc(n, kinds, fl)>>, participants |-> <<>>,
                         artifacts |-> EmptyMap], "diagrama.bpmn")

Next ==
    \/ RenderBegin
    \/ ProcessBegin
    \/ WalkEntry
    \/ WalkBranch
    \/ WalkDone
    \/ RenderEnd

Spec == Init /\ [][Next]_vars

(* ------------------------ whole documents ------------------------------ *)
\* the documents SpecDoc explores hold at most MaxProcs process elements
MaxProcs == 2

\* render_bpmn_bytes is called once more with the same content and filename
Rerun ==
    /\ pc = "done"
    /\ prev_result = NoResult
    /\ prev_result' = result
    /\ tmp_stem' = ""
    /\ pc' = "begin"
    /\ proc_info' = <<>>
    /\ pidx' = 0
    /\ node_lane' = EmptyMap
    /\ start_events' = <<>>
    /\ sidx' = 0
    /\ lines' = <<>>
    /\ all_lines' = <<>>
    /\ stack' = <<>>
    /\ branch_lines' = <<>>
    /\ number_map' = EmptyMap
    /\ branch_state' = EmptyMap
    /\ result' = NoResult
    /\ UNCHANGED <<doc, filename>>

\* a sequenceFlow element of a process, yet without its id
Flow(name, s, t) == [name |-> name, sourceRef |-> s, targetRef |-> t]

\* the sequenceFlow elements with their ids, in document order
WithIds(sfs) ==
    [k \in 1..Len(sfs) |->
        [id |-> FlowId(k), name |-> sfs[k].name,
         sourceRef |-> sfs[k].sourceRef, targetRef |-> sfs[k].targetRef]]

\* The process elements a document is made of; the ids of the elements of
\* the i-th process are 10 * i + 1, 10 * i + 2, ... in document order.
\*   linear: start event -> userTask "A" in the lane "Vendas" -> end event
\*   split:  start event -> exclusive gateway "Aprovado?" -> two end events
\*   loose:  a task and no start event
ShapeNames == {"linear", "split", "loose"}

ShapeElems(i, shape) ==
    LET b == 10 * i
    IN CASE shape = "linear" ->
               (b + 1 :> Elem("startEvent", "Início")) @@ (b + 2 :> Elem("userTask", "A"))
                   @@ (b + 3 :> Elem("endEvent", "Fim"))
         [] shape = "split" ->
               (b + 1 :> Elem("startEvent", "Início"))
                   @@ (b + 2 :> Elem("exclusiveGateway", "Aprovado?"))
                   @@ (b + 3 :> Elem("endEvent", "Aprovado"))
                   @@ (b + 4 :> Elem("endEvent", "Recusado"))
         [] shape = "loose" -> (b + 1 :> Elem("task", "Arquivar"))

ShapeFlows(i, shape) ==
    LET b == 10 * i
    IN CASE shape = "linear" -> <<Flow("", b + 1, b + 2), Flow("", b + 2, b + 3)>>
         [] shape = "split" -> <<Flow("", b + 1, b + 2), Flow("Sim", b + 2, b + 3),
                                 Flow("Não", b + 2, b + 4)>>
         [] shape = "loose" -> <<>>

ShapeLanes(i, shape) ==
    IF shape = "linear" THEN <<[name |-> "Vendas", refs |-> {10 * i + 2}]>> ELSE <<>>

DocProc(i, shape, named) ==
    [id |-> "Process_" \o ToString(i),
     name |-> IF named THEN "Processo " \o ToString(i) ELSE "",
     elems |-> ShapeElems(i, shape),
     flows |-> WithIds(ShapeFlows(i, shape)),
     lanes |-> ShapeLanes(i, shape)]

\* the participants of the collaboration: none, one named participant of
\* the first process, or that one and an unnamed second one
ParticipantLists ==
    {<<>>,
     <<[processRef |-> "Process_1", name |-> "Cliente"]>>,
     <<[processRef |-> "Process_1", name |-> "Cliente"],
       [processRef |-> "Process_1", name |-> ""]>>}

\* what collect_artifacts returns: nothing, or a system, a document and two
\* notes for the second element of the first process (only a flow node of
\* the document gets an entry)
ArtifactMaps ==
    {EmptyMap,
     12 :> <<<<"Sistema", "SAP">>, <<"Documento", "Contrato">>,
             <<"Anotação", "nota  dupla">>, <<"Anotação", "nota dupla">>>>}

InitDoc ==
    \E n \in 0..MaxProcs : \E shapes \in [1..n -> ShapeNames] :
        \E named \in [1..n -> BOOLEAN] :
            \E parts \in ParticipantLists : \E arts \in ArtifactMaps :
                /\ \A x \in DOMAIN arts : \E i \in 1..n : x \in DOMAIN ShapeElems(i, shapes[i])
                /\ Start([procs |-> [i \in 1..n |-> DocProc(i, shapes[i], named[i])],
                          participants |-> parts, artifacts |-> arts], "diagrama.bpmn")

NextDoc ==
    \/ RenderBegin
    \/ ProcessBegin
    \/ WalkEntry
    \/ WalkBranch
    \/ WalkDone
    \/ RenderEnd
    \/ Rerun

SpecDoc == InitDoc /\ [][NextDoc]_vars

(* ----------------------------- link events ----------------------------- *)
\* the processes SpecLink explores hold at most MaxLinkNodes flow nodes and
\* MaxLinkFlows sequenceFlow elements
MaxLinkNodes == 4
MaxLinkFlows == 2

\* an event element with one linkEventDefinition child named link
LinkElem(tag, name, link) ==
    [tag |-> tag, name |-> name, event_defs |-> <<[kind |-> "link", name |-> link]>>]

\* The flow nodes 2..n of the process are of these kinds: an unnamed
\* exclusive gateway, a throw and a catch of the link "L", a catch of the
\* link "M" (with no throw by that name in any process).
LinkKinds ==
    <<Elem("exclusiveGateway", ""),
      LinkElem("intermediateThrowEvent", "Vai", "L"),
      LinkElem("intermediateCatchEvent", "Volta", "L"),
      LinkElem("intermediateCatchEvent", "Outro", "M")>>

\* the elements of one kind are interchangeable, so the kinds of the flow
\* nodes 2..n are listed in ascending order
LinkKindLists(n) ==
    {kinds \in [2..n -> 1..Len(LinkKinds)] :
        \A j \in 2..(n - 1) : kinds[j] <= kinds[j + 1]}

\* a process with the start event 1, the flow nodes 2..n and the flows given
\* (sourceRef, targetRef, id)
LinkProc(n, kinds, fl) ==
    [id |-> "Process_1", name |-> "Processo",
     elems |-> [i \in 1..n |->
                   IF i = 1 THEN Elem("startEvent", "Início") ELSE LinkKinds[kinds[i]]],
     flows |-> [k \in 1..Len(fl) |->
                   [id |-> fl[k][3], name |-> "",
                    sourceRef |-> fl[k][1], targetRef |-> fl[k][2]]],
     lanes |-> <<>>]

\* the ids the first sequenceFlow of a process with m more of them can have:
\* Flow_1, and for the process with that flow alone also the id graph repair
\* gives the flow it makes from the node 2 to the node 3
FirstFlowIds(m) == IF m = 0 THEN {FlowId(1), LinkId(2, 3)} ELSE {FlowId(1)}

\* a flow leads from the start event to the flow node 2; the sequenceFlow
\* elements after it, MaxLinkFlows at most, are listed in ascending
\* sourceRef, and none of them leads to the start event; the ids of the
\* sequenceFlow elements of a process are distinct
InitLink ==
    \E n \in 2..MaxLinkNodes : \E kinds \in LinkKindLists(n) : \E m \in 0..MaxLinkFlows :
        \E src \in Ascending(m, 1, n) : \E tgt \in [1..m -> 2..n] :
          \E id1 \in FirstFlowIds(m) :
            LET fl == <<<<1, 2, id1>>>> \o [k \in 1..m |-> <<src[k], tgt[k], FlowId(k + 1)>>]
            IN Start([procs |-> <<LinkProc(n, kinds, fl)>>, participants |-> <<>>,
                      artifacts |-> EmptyMap], "diagrama.bpmn")

SpecLink == InitLink /\ [][Next]_vars

(* --------------------------- several start events --------------------- *)
\* the processes SpecStarts explores hold at most MaxStartNodes flow nodes
\* and MaxStartFlows sequenceFlow elements
MaxStartNodes == 4
MaxStartFlows == 3

\* the start events 1 and 2 are followed by user tasks and exclusive
\* gateways, listed in this order
StartKindLists(n) ==
    {kinds \in [2..n -> {"startEvent", "userTask", "exclusiveGateway"}] :
        /\ kinds[2] = "startEvent"
        /\ \A j \in 3..n : kinds[j] # "startEvent"
        /\ \A j \in 3..(n - 1) : KindRank(kinds[j]) <= KindRank(kinds[j + 1])}

\* a process with two start events: the sequenceFlow elements, MaxStartFlows
\* at most, are listed in ascending sourceRef, and none of them leads to a
\* start event
InitStarts ==
    \E n \in 2..MaxStartNodes : \E kinds \in StartKindLists(n) : \E m \in 0..MaxStartFlows :
        \E src \in Ascending(m, 1, n) : \E tgt \in [1..m -> 3..n] :
            Start([procs |-> <<WalkProc(n, kinds, [k \in 1..m |-> <<src[k], tgt[k]>>])>>,
                   participants |-> <<>>, artifacts |-> EmptyMap], "diagrama.bpmn")

SpecStarts == InitStarts /\ [][Next]_vars

(* ------------------------------- lanes --------------------------------- *)
\* the processes SpecLane explores hold at most MaxLanes lanes
MaxLanes == 2

\* the id of the k-th lane element
LaneId(k) == 100 + k

\* Bounds (x, y, width, height) a lane shape can have: the upper and the
\* lower half of a pool, the whole pool, and a lane nested in its upper left
LaneRects == {<<0, 0, 8, 4>>, <<0, 4, 8, 4>>, <<0, 0, 8, 8>>, <<0, 0, 4, 4>>}

\* Bounds a task shape can have: within the nested lane, astride the two
\* halves, within the lower half, astride the edge of the nested lane,
\* outside the pool, and a shape without extent
NodeRects ==
    {<<2, 2, 2, 2>>, <<2, 3, 2, 2>>, <<5, 5, 2, 2>>, <<3, 1, 2, 2>>,
     <<9, 9, 2, 2>>, <<2, 2, 0, 0>>}

\* no BPMNShape refers to the element
NoShape == <<>>

\* The process of SpecLane: start event 1 -> exclusive gateway 2 -> the
\* userTasks 3 ("A") and 4 ("B").  Its lanes have the Bounds lrects; the lane
\* bound, if any, lists task 4 in a flowNodeRef; ra and rb are the Bounds of
\* the shapes of the tasks.
LaneProc(lrects, bound) ==
    [id |-> "Process_1", name |-> "Processo",
     elems |-> <<Elem("startEvent", "Início"), Elem("exclusiveGateway", "Rota?"),
                 Elem("userTask", "A"), Elem("userTask", "B")>>,
     flows |-> WithIds(<<Flow("", 1, 2), Flow("a", 2, 3), Flow("b", 2, 4)>>),
     lanes |-> [k \in 1..Len(lrects) |->
                   [id |-> LaneId(k), name |-> "Raia " \o ToString(k),
                    refs |-> IF k = bound THEN {4} ELSE {}]]]

\* the BPMNShape elements: the lanes first, then the tasks that have one
LaneShapes(lrects, ra, rb) ==
    [k \in 1..Len(lrects) |-> [bpmnElement |-> LaneId(k), bounds |-> lrects[k]]]
        \o (IF ra = NoShape THEN <<>> ELSE <<[bpmnElement |-> 3, bounds |-> ra]>>)
        \o (IF rb = NoShape THEN <<>> ELSE <<[bpmnElement |-> 4, bounds |-> rb]>>)

InitLane ==
    \E n \in 0..MaxLanes : \E lrects \in [1..n -> LaneRects] : \E bound \in 0..n :
        \E ra \in NodeRects \cup {NoShape} : \E rb \in NodeRects \cup {NoShape} :
            Start([procs |-> <<LaneProc(lrects, bound)>>, participants |-> <<>>,
                   artifacts |-> EmptyMap, shapes |-> LaneShapes(lrects, ra, rb)],
                  "diagrama.bpmn")

SpecLane == InitLane /\ [][Next]_vars

(* ------------------------- reading the output -------------------------- *)
\* s begins with p
StartsWith(s, p) == Len(s) >= Len(p) /\ SubSeq(s, 1, Len(p)) = p

\* s ends with p
EndsWith(s, p) == Len(s) >= Len(p) /\ SubSeq(s, Len(s) - Len(p) + 1, Len(s)) = p

\* p occurs in s
Contains(s, p) ==
    \E i \in 1..(Len(s) - Len(p) + 1) : SubSeq(s, i, i + Len(p) - 1) = p

\* the number of blanks s begins with, counted from position i on
RECURSIVE Blanks(_, _)
Blanks(s, i) ==
    IF i <= Len(s) /\ SubSeq(s, i, i) = " " THEN Blanks(s, i + 1) ELSE i - 1

\* the indent of a line, and the line without it
IndentOf(s) == Blanks(s, 1)
Strip(s) == SubSeq(s, IndentOf(s) + 1, Len(s))

\* the line is the marker "(<label> N)"; MarkerNumber is its N
IsMarker(s, label) ==
    StartsWith(Strip(s), "(" \o label \o " ") /\ EndsWith(s, ")")
MarkerNumber(s, label) ==
    SubSeq(Strip(s), Len(label) + 3, Len(Strip(s)) - 1)

\* the line is the numbered header "N. ..."
IsHeader(s, num) == StartsWith(Strip(s), num \o ". ")

\* the walk from the start event start_events[sidx] has returned
WalkOver == pc = "walk" /\ Len(stack) = 0

\* the nodes that sequence flows of the repaired graph lead to from S
RECURSIVE ReachableFrom(_)
ReachableFrom(S) ==
    LET T == S \cup ({flows[f].target :
                         f \in {g \in DOMAIN flows : flows[g].source \in S}}
                     \cap DOMAIN nodes)
    IN IF T = S THEN S ELSE ReachableFrom(T)

\* the counts of the flows of the repaired graph at a node
InDegree(x) == Cardinality({f \in DOMAIN flows : flows[f].target = x})
OutDegree(x) == Cardinality({f \in DOMAIN flows : flows[f].source = x})

\* a non-parallel gateway with more than one incoming and exactly one
\* outgoing flow
QuietGateway(x) ==
    /\ x \in DOMAIN nodes
    /\ nodes[x].kind \in GatewayTags \ {"parallelGateway"}
    /\ InDegree(x) > 1
    /\ OutDegree(x) = 1

(* ------------------------------ numbering ------------------------------ *)
\* C2, as stated: within one walk no two distinct nodes are recorded in
\* number_map with the same dotted-decimal number.
C2_UniqueNumbers ==
    \A a, b \in DOMAIN number_map :
        a # b => number_map[a].num_str # number_map[b].num_str

\* C2, amended: within one walk two distinct nodes are recorded with the same
\* number only if one of them is a converging gateway that is passed without
\* a line; the nodes that get a header line have numbers of their own.
C2_UniqueHeaderNumbers ==
    pc = "walk" =>
        \A a, b \in DOMAIN number_map :
            (a # b /\ number_map[a].num_str = number_map[b].num_str)
                => (QuietGateway(a) \/ QuietGateway(b))

\* a walk is over in which a converging gateway passed without a line and a
\* task have both been recorded with the number 2
C2_SharedNumber ==
    /\ WalkOver
    /\ \E a, b \in DOMAIN number_map :
          /\ a # b
          /\ QuietGateway(a)
          /\ nodes[b].kind \in TaskTags
          /\ number_map[a].parts = number_map[b].parts
          /\ number_map[b].parts = <<2>>

(* ---------------------------- reachability ----------------------------- *)
\* C3: when the walk from a start event has finished, every node reachable
\* from it along the flows of the repaired graph is a key of number_map and
\* has at most one numbered header line.
C3_ReachableNumbered ==
    WalkOver =>
        \A x \in ReachableFrom({start_events[sidx]}) :
            /\ x \in DOMAIN number_map
            /\ Cardinality({k \in 1..Len(branch_lines) :
                               IsHeader(branch_lines[k], number_map[x].num_str)}) <= 1

(* ----------------------------- termination ----------------------------- *)
\* the frames below the top frame belong to distinct nodes of number_map
FramesNumbered ==
    pc = "walk" =>
        /\ \A k \in 1..(Len(stack) - 1) : stack[k].node_id \in DOMAIN number_map
        /\ \A j, k \in 1..(Len(stack) - 1) : j # k => stack[j].node_id # stack[k].node_id
        /\ DOMAIN number_map \subseteq DOMAIN nodes
        /\ Len(stack) <= Cardinality(DOMAIN nodes) + 1

\* a call of walk returns without a recursive call and without a new node
ReturnsAtOnce == Len(stack') < Len(stack) /\ number_map' = number_map

\* a call of walk enters a node into number_map that was not in it
AddsNewNode ==
    /\ top.node_id \in DOMAIN nodes \ DOMAIN number_map
    /\ DOMAIN number_map' = DOMAIN number_map \cup {top.node_id}

\* the nodes of the process that are not in number_map
Unrecorded == Cardinality(DOMAIN nodes \ DOMAIN number_map)

\* the turns the loops over outs of the diverging gateways in st have left,
\* counted twice, plus one for a loop that is at its head
RECURSIVE Pending(_)
Pending(st) ==
    IF Len(st) = 0 THEN 0
    ELSE LET f == st[1]
         IN (IF f.at \in {"div_loop", "div_wait"}
             THEN 2 * (Len(Outs(f.node_id)) - f.i) + (IF f.at = "div_loop" THEN 1 ELSE 0)
             ELSE 0) + Pending(Tail(st))

\* a step of walk makes (Unrecorded, Pending, depth of the stack) smaller in
\* the lexicographic order
Decreases ==
    \/ Unrecorded' < Unrecorded
    \/ /\ Unrecorded' = Unrecorded
       /\ \/ Pending(stack') < Pending(stack)
          \/ Pending(stack') = Pending(stack) /\ Len(stack') < Len(stack)

\* the call at the top of the stack is not waiting for a call: it is at its
\* first line or at the head of its loop over outs, so it can take a step
TopRuns ==
    (pc = "walk" /\ Len(stack) > 0) => top.at \in {"entry", "div_loop"}

\* C4: walk terminates on every finite graph: every call returns without a
\* recursive call or first adds a new node to number_map; the calls in
\* progress are at most one more than the nodes; the walk is never stuck,
\* and every step of it lowers a measure that cannot fall for ever.
C4_WalkTerminates ==
    /\ [](FramesNumbered /\ TopRuns)
    /\ [][(pc = "walk" /\ Len(stack) > 0 /\ top.at = "entry")
              => (ReturnsAtOnce \/ AddsNewNode)]_vars
    /\ [][(pc = "walk" /\ Len(stack) > 0) => Decreases]_vars

\* a walk is over that came to a self-loop and to a cycle through two nodes,
\* and cut both with a cross-reference
C4_CycleCut ==
    /\ WalkOver
    /\ \E f, g, h \in DOMAIN flows :
          /\ flows[f].source = flows[f].target
          /\ flows[g].source # flows[g].target
          /\ flows[h].source = flows[g].target
          /\ flows[h].target = flows[g].source
          /\ {flows[f].source, flows[g].source, flows[h].source} \subseteq DOMAIN number_map
    /\ Cardinality({k \in 1..Len(branch_lines) :
                       IsMarker(branch_lines[k], "retorna para")}) >= 2

(* --------------------------- cross-references -------------------------- *)
\* the positions of the "(retorna para N)" lines of the walk
ReturnMarkers == {k \in 1..Len(branch_lines) : IsMarker(branch_lines[k], "retorna para")}

\* C6, as stated: for every line "(retorna para N)" of a walk an earlier
\* line of the walk is the header "N. ...", indented no deeper than the
\* marker.
C6_MarkerHasHeader ==
    \A k \in ReturnMarkers :
        \E j \in 1..(k - 1) :
            /\ IsHeader(branch_lines[j], MarkerNumber(branch_lines[k], "retorna para"))
            /\ IndentOf(branch_lines[j]) <= IndentOf(branch_lines[k])

\* C6, amended: for every line "(retorna para N)" of a walk, N is the number
\* number_map records for a node, and an earlier line of the walk is the
\* header "N. ..." whenever a node recorded with N is not a converging
\* gateway passed without a line.
C6_MarkerHasRecord ==
    pc = "walk" =>
        \A k \in ReturnMarkers :
            LET num == MarkerNumber(branch_lines[k], "retorna para")
                recorded == {x \in DOMAIN number_map : number_map[x].num_str = num}
            IN /\ recorded # {}
               /\ (\E x \in recorded : ~QuietGateway(x))
                      => \E j \in 1..(k - 1) : IsHeader(branch_lines[j], num)

\* a walk is over with a marker whose number has a header, and with a marker
\* whose number is recorded for a gateway alone and has none
C6_BothMarkers ==
    /\ WalkOver
    /\ \E k \in ReturnMarkers :
          \E j \in 1..(k - 1) :
              IsHeader(branch_lines[j], MarkerNumber(branch_lines[k], "retorna para"))
    /\ \E k \in ReturnMarkers :
          /\ \A j \in 1..Len(branch_lines) :
                ~IsHeader(branch_lines[j], MarkerNumber(branch_lines[k], "retorna para"))
          /\ \E x \in DOMAIN number_map :
                /\ QuietGateway(x)
                /\ number_map[x].num_str = MarkerNumber(branch_lines[k], "retorna para")

(* -------------------------------- loops -------------------------------- *)
\* the call at the top of the stack has come to a node of its path_set
OnPath ==
    /\ pc = "walk"
    /\ Len(stack) > 0
    /\ top.at = "entry"
    /\ top.node_id \in top.path_set

\* the number of the call in progress for the node the top call has come to
AncestorNumber ==
    format_number(stack[CHOOSE k \in 1..(Len(stack) - 1) :
                            stack[k].node_id = top.node_id].numbering)

\* C7: when the walk follows a flow to a node of path_set it emits the
\* marker "(loop em N)", N the number of that ancestor, and does not recurse.
C7_LoopMarker ==
    [][OnPath =>
          /\ Len(stack') < Len(stack)
          /\ Len(branch_lines') = Len(branch_lines) + 1
          /\ Strip(branch_lines'[Len(branch_lines')])
                 = "(loop em " \o AncestorNumber \o ")"]_vars

(* ----------------------------- convergence ----------------------------- *)
\* the call at the top of the stack has come, for the first time, to a
\* non-parallel gateway with several incoming flows and one outgoing flow
AtQuietGateway ==
    /\ pc = "walk"
    /\ Len(stack) > 0
    /\ top.at = "entry"
    /\ top.node_id \notin DOMAIN number_map
    /\ QuietGateway(top.node_id)

\* the target of the only outgoing flow of x
Successor(x) == flows[CHOOSE f \in DOMAIN flows : flows[f].source = x].target

\* C10: when the walk first reaches, with numbering N, a non-parallel gateway
\* with more than one incoming and exactly one outgoing flow, it emits no
\* line, records N for the gateway and walks the successor with the same N.
C10_QuietConvergence ==
    [][AtQuietGateway =>
          /\ branch_lines' = branch_lines
          /\ DOMAIN number_map' = DOMAIN number_map \cup {top.node_id}
          /\ number_map'[top.node_id].parts = top.numbering
          /\ number_map'[top.node_id].num_str = format_number(top.numbering)
          /\ Len(stack') = Len(stack) + 1
          /\ stack'[Len(stack')].at = "entry"
          /\ stack'[Len(stack')].node_id = Successor(top.node_id)
          /\ stack'[Len(stack')].numbering = top.numbering]_vars

\* a walk is over in which such a gateway was recorded, no line names a
\* gateway, and the task after it got the header with the gateway's number
C10_SuccessorAtDepth ==
    /\ WalkOver
    /\ \E g \in DOMAIN number_map :
          /\ QuietGateway(g)
          /\ Successor(g) \in DOMAIN number_map
          /\ nodes[Successor(g)].kind \in TaskTags
          /\ number_map[Successor(g)].parts = number_map[g].parts
          /\ \E k \in 1..Len(branch_lines) :
                branch_lines[k] = Spaces(Len(number_map[g].parts) - 1)
                                      \o number_map[g].num_str \o ". Atividade: "
                                      \o nodes[Successor(g)].name
          /\ \A k \in 1..Len(branch_lines) : ~Contains(branch_lines[k], "Gateway")

(* ------------------------------ coverage ------------------------------- *)
\* C5: whenever rendering succeeds, every task element with a non-empty name
\* has that name in a line of the output.
C5_TaskNamesShown ==
    pc = "done" =>
        \A i \in DOMAIN doc.procs : \A e \in DOMAIN doc.procs[i].elems :
            (doc.procs[i].elems[e].tag \in TaskTags /\ doc.procs[i].elems[e].name # "")
                => Contains(result, doc.procs[i].elems[e].name)

(* ----------------------------- determinism ----------------------------- *)
\* C1: two calls of render_bpmn_bytes with the same content and the same
\* filename return identical strings, also where the title falls back to
\* the stem of the path.
C1_SameOutput ==
    (pc = "done" /\ prev_result # NoResult) => result = prev_result

(* -------------------------------- titles ------------------------------- *)
\* the "Titulo: " lines of the output, in their order
TitleLines == SelectSeq(all_lines, LAMBDA l : StartsWith(l, "Titulo: "))

\* the name of the last participant that refers to the process id, or ""
BoundParticipant(id) ==
    LET refs == {k \in 1..Len(doc.participants) : doc.participants[k].processRef = id}
    IN IF refs = {} THEN ""
       ELSE doc.participants[CHOOSE k \in refs : \A j \in refs : j <= k].name

\* the title line a process is to get
TitleOf(proc) ==
    "Titulo: " \o (IF proc.name # "" THEN proc.name
                   ELSE IF BoundParticipant(proc.id) # "" THEN BoundParticipant(proc.id)
                   ELSE tmp_stem)

HasStart(proc) == \E e \in DOMAIN proc.elems : proc.elems[e].tag = "startEvent"

LinearScenario ==
    /\ Len(doc.procs) = 1
    /\ doc.artifacts = EmptyMap
    /\ LET proc == doc.procs[1]
       IN \E s, a, e \in DOMAIN proc.elems :
             /\ DOMAIN proc.elems = {s, a, e}
             /\ proc.elems[s] = Elem("startEvent", "Início")
             /\ proc.elems[a] = Elem("userTask", "A")
             /\ proc.elems[e] = Elem("endEvent", "Fim")
             /\ proc.flows = WithIds(<<Flow("", s, a), Flow("", a, e)>>)
             /\ proc.lanes = <<[name |-> "Vendas", refs |-> {a}]>>

HeadersOf(x) ==
    {k \in 1..Len(branch_lines) : IsHeader(branch_lines[k], number_map[x].num_str)}

\* the line names the event as the catching or the throwing side of a link
HasLinkMark(s) == Contains(s, "captura") \/ Contains(s, "disparo")

\* C11: the description rendered for an intermediate link event carries the
\* marker 'captura' or 'disparo' only if at least one catch and at least one
\* throw share its link name.
C11_MarkOnlyIfPaired ==
    pc = "walk" =>
        \A x \in DOMAIN number_map :
            nodes[x].event_flavor = "link" =>
                \A k \in HeadersOf(x) :
                    HasLinkMark(branch_lines[k])
                        => Paired(doc.procs[pidx], nodes[x].link_name)

(* --------------------------- dangling flows ---------------------------- *)
\* C12: after collect_elements returns, every flow in the flows map has a
\* source and a target that are both keys of the nodes map of that process,
\* and a flow that names no collected node is kept neither in outgoing nor
\* in incoming.
C12_FlowsReferNodes ==
    pc = "walk" =>
        /\ \A f \in DOMAIN flows :
              flows[f].source \in DOMAIN nodes /\ flows[f].target \in DOMAIN nodes
        /\ \A x \in DOMAIN outgoing : Len(outgoing[x]) > 0 => x \in DOMAIN nodes
        /\ \A x \in DOMAIN incoming : Len(incoming[x]) > 0 => x \in DOMAIN nodes

(* ----------------------------- graph repair ---------------------------- *)
\* collect_elements has returned for the only process of the document
Collected == pc = "process" /\ pidx = 1 /\ Len(doc.procs) = 1

\* flows, outgoing and incoming as built from the authored sequenceFlow
\* elements, before graph repair
Authored(proc) ==
    BuildFlows(proc.flows, 1,
               [flows |-> EmptyMap, outgoing |-> EmptyMap, incoming |-> EmptyMap])

\* the elements of a list
Elems(seq) == {seq[i] : i \in 1..Len(seq)}

\* the link names of the process that have a catch and a throw
PairedNames(proc) == {nm \in Elems(LinkNames(proc)) : Paired(proc, nm)}

\* C13: after collect_elements returns, for every link name that has at
\* least one catch and at least one throw, every throw of that name has at
\* least one outgoing flow, and every catch of that name that had no authored
\* incoming flow has at least one incoming flow, whether or not the catch has
\* outgoing flows of its own.
C13_LinksRepaired ==
    Collected =>
        LET proc == doc.procs[1]
            g == proc_info[1]
        IN \A nm \in PairedNames(proc) :
              /\ \A tid \in Elems(link_by_name(proc, nm).throw) :
                    Len(Get(g.outgoing, tid, <<>>)) > 0
              /\ \A cid \in Elems(link_by_name(proc, nm).catch) :
                    Len(Get(Authored(proc).incoming, cid, <<>>)) = 0
                        => Len(Get(g.incoming, cid, <<>>)) > 0

\* the link names of the process that have only catch events or only throw
\* events
UnpairedNames(proc) == Elems(LinkNames(proc)) \ PairedNames(proc)

\* the link events that carry the link name nm
LinkEvents(proc, nm) ==
    Elems(link_by_name(proc, nm).catch) \cup Elems(link_by_name(proc, nm).throw)

\* C14: for a link name that has only catch events or only throw events,
\* graph repair creates no synthetic flow, retargets no flow to a catch of
\* that name and leaves the outgoing flows of its events as authored; in a
\* process where no link name has both sides, flows, outgoing and incoming
\* are exactly as built from the authored sequenceFlow elements.
C14_UnpairedUntouched ==
    Collected =>
        LET proc == doc.procs[1]
            g == proc_info[1]
            a == Authored(proc)
        IN /\ \A nm \in UnpairedNames(proc) :
                 /\ \A f \in DOMAIN g.flows :
                       ~(g.flows[f].is_link /\ g.flows[f].name = LinkLabel(nm))
                 /\ \A e \in LinkEvents(proc, nm) :
                       Get(g.outgoing, e, <<>>) = Get(a.outgoing, e, <<>>)
                 /\ \A f \in DOMAIN a.flows :
                       g.flows[f].target \in Elems(link_by_name(proc, nm).catch)
                           => g.flows[f].target = a.flows[f].target
           /\ PairedNames(proc) = {} =>
                 /\ g.flows = a.flows
                 /\ g.outgoing = a.outgoing
                 /\ g.incoming = a.incoming

\* a throw of "L" without outgoing flow and a catch of "M" without flows in a
\* process where no link name has both sides
C14_LoneThrowAndCatch ==
    /\ Collected
    /\ LET proc == doc.procs[1]
           a == Authored(proc)
       IN /\ PairedNames(proc) = {}
          /\ \E t \in Elems(link_by_name(proc, "L").throw) :
                Len(Get(a.outgoing, t, <<>>)) = 0
          /\ \E c \in Elems(link_by_name(proc, "M").catch) :
                Len(Get(a.incoming, c, <<>>)) = 0 /\ Len(Get(a.outgoing, c, <<>>)) = 0
          /\ proc_info[1].flows = a.flows

(* --------------------------- cross-references -------------------------- *)
\* the list s comes before the list c in lexicographic order, a proper
\* prefix coming before the lists it begins
LexLess(s, c) ==
    \E k \in 1..Len(c) :
        /\ \A j \in 1..(k - 1) : j <= Len(s) /\ s[j] = c[j]
        /\ k > Len(s) \/ s[k] < c[k]

\* the call at the top of the stack has come to a node that is numbered
AtNumbered ==
    /\ pc = "walk"
    /\ Len(stack) > 0
    /\ top.at = "entry"
    /\ top.node_id \in DOMAIN number_map

\* C15: when walk reaches a node that is already in number_map with stored
\* numbering S and number string N, it emits exactly one line at the indent
\* of the current numbering C: '(retorna para N)' if S is lexicographically
\* smaller than C, '(avança para N)' if S is greater, '(referência N)' if S
\* equals C; it does not recurse and changes neither number_map nor
\* branch_state.
C15_CrossReference ==
    [][AtNumbered =>
          LET S == number_map[top.node_id].parts
              N == number_map[top.node_id].num_str
              C == top.numbering
              label == IF LexLess(S, C) THEN "retorna para"
                       ELSE IF LexLess(C, S) THEN "avança para"
                       ELSE "referência"
          IN /\ S = C \/ LexLess(S, C) \/ LexLess(C, S)
             /\ branch_lines' =
                    Append(branch_lines,
                           Spaces(Len(C) - 1) \o "(" \o label \o " " \o N \o ")")
             /\ Len(stack') < Len(stack)
             /\ number_map' = number_map
             /\ branch_state' = branch_state]_vars

\* a walk is over that has come to a numbered node twice: once with a
\* numbering the stored one is a proper prefix of, once with the stored
\* numbering itself
C15_PrefixAndEqual ==
    /\ WalkOver
    /\ \E k \in 1..Len(branch_lines) :
          /\ IsMarker(branch_lines[k], "retorna para")
          /\ IndentOf(branch_lines[k]) > 0
          /\ \E x \in DOMAIN number_map :
                /\ number_map[x].num_str = MarkerNumber(branch_lines[k], "retorna para")
                /\ Len(number_map[x].parts) = 1
    /\ \E k \in 1..Len(branch_lines) : IsMarker(branch_lines[k], "referência")

(* ---------------------------- branch indices --------------------------- *)
\* the frames of the diverging gateways whose loop over the outgoing flows
\* is running
Diverging == {p \in 1..Len(stack) : stack[p].at \in {"div_loop", "div_wait"}}

\* the loop of every such gateway is at one of its outgoing flows, the
\* gateway was emitted with the numbering of the frame, and the branch
\* indices allocated so far are those of the flows the loop has come to
IndicesInStep ==
    pc = "walk" =>
        \A p \in Diverging :
            LET f == stack[p]
            IN /\ f.i \in 1..Len(Outs(f.node_id))
               /\ number_map[f.node_id].parts = f.numbering
               /\ branch_state[f.node_id].next =
                      IF f.at = "div_loop" THEN f.i ELSE f.i + 1

\* the target of the i-th outgoing flow is walked with the numbering N.i.1
WalksBranch ==
    (pc = "walk" /\ Len(stack) > 0 /\ top.at = "div_loop") =>
        /\ Len(stack') = Len(stack) + 1
        /\ stack'[Len(stack')].at = "entry"
        /\ stack'[Len(stack')].node_id = flows[Outs(top.node_id)[top.i]].target
        /\ stack'[Len(stack')].numbering = top.numbering \o <<top.i, 1>>

\* a diverging gateway returns only after its last outgoing flow
LeavesAfterLast ==
    \A p \in Diverging :
        (Len(stack') < p \/ stack'[p].node_id # stack[p].node_id
            \/ stack'[p].at \notin {"div_loop", "div_wait"})
            => stack[p].i = Len(Outs(stack[p].node_id))

\* C16: for a diverging gateway emitted with numbering N and outgoing flows
\* f1..fn in document order, the target of fi is walked with numbering
\* N.i.1: the branch indices allocated from branch_state are exactly
\* 1, 2, ..., n without gaps, whatever the numbering used inside the earlier
\* branches.
C16_BranchIndices ==
    /\ []IndicesInStep
    /\ [][WalksBranch]_vars
    /\ [][pc = "walk" => LeavesAfterLast]_vars

\* the second branch of the gateway numbered 2 is walked with 2.2.1 after
\* its first branch has used the numberings 2.1.1 and 2.1.2
C16_SecondBranch ==
    /\ pc = "walk"
    /\ Len(stack) > 0
    /\ top.at = "entry"
    /\ top.numbering = <<2, 2, 1>>
    /\ \E k \in 1..(Len(branch_lines) - 1) :
          /\ IsHeader(branch_lines[k], "2.1.1")
          /\ \E j \in (k + 1)..Len(branch_lines) :
                /\ IsMarker(branch_lines[j], "retorna para")
                /\ IndentOf(branch_lines[j]) = 8

(* ------------------------- orphan-catch splicing ----------------------- *)
\* flows, outgoing and incoming when the loop over the catch events of the
\* j-th link name has dealt with the first k of them
SplicedUpTo(proc, j, k) ==
    LET names == LinkNames(proc)
        grp == link_by_name(proc, names[j])
    IN SpliceCatches(SpliceOrphanCatches(proc, SubSeq(names, 1, j - 1), Authored(proc)),
                     names[j], SubSeq(grp.catch, 1, k), grp.throw)

\* the positions in throws of the throw events that have an outgoing flow
LiveThrows(g, throws) ==
    {i \in 1..Len(throws) : Len(Get(g.outgoing, throws[i], <<>>)) > 0}

\* the target of the first outgoing flow of the first such throw
SpliceTarget(g, throws) ==
    LET i == CHOOSE i \in LiveThrows(g, throws) : \A j \in LiveThrows(g, throws) : i <= j
    IN g.flows[g.outgoing[throws[i]][1]].target

\* the loop comes to the k-th catch of the j-th link name, a paired name,
\* when the catch has no flow and some throw of the name has an outgoing flow
SplicesAt(proc, j, k) ==
    LET nm == LinkNames(proc)[j]
        grp == link_by_name(proc, nm)
        b == SplicedUpTo(proc, j, k - 1)
    IN /\ Paired(proc, nm)
       /\ Len(Get(b.incoming, grp.catch[k], <<>>)) = 0
       /\ Len(Get(b.outgoing, grp.catch[k], <<>>)) = 0
       /\ LiveThrows(b, grp.throw) # {}

\* the positions of the link names of proc and of the catch events of each
CatchPositions(proc) ==
    {jk \in (1..Len(LinkNames(proc))) \X DOMAIN proc.elems :
        jk[2] <= Len(link_by_name(proc, LinkNames(proc)[jk[1]]).catch)}

\* what one splice does to the graph b, giving the graph a
SpliceEffect(b, a, nm, C, T) ==
    LET new == DOMAIN a.flows \ DOMAIN b.flows
    IN /\ DOMAIN b.flows \subseteq DOMAIN a.flows
       /\ Cardinality(new) = 1
       /\ \A s \in new :
             /\ a.flows[s] = [name |-> "Link: " \o nm, source |-> C,
                              target |-> T, is_link |-> TRUE]
             /\ a.incoming[T] = <<s>>
             /\ a.outgoing[C] = <<s>>
             /\ {f \in DOMAIN a.flows : a.flows[f].target = T} = {s}
             /\ {f \in DOMAIN a.flows : a.flows[f].source = C} = {s}
       /\ \A f \in DOMAIN b.flows :
             /\ a.flows[f].source = b.flows[f].source
             /\ a.flows[f].name = b.flows[f].name
             /\ a.flows[f].target = IF b.flows[f].target = T THEN C
                                    ELSE b.flows[f].target
       /\ a.incoming[C] = b.incoming[T]
       /\ \A x \in DOMAIN b.outgoing : x # C => a.outgoing[x] = b.outgoing[x]
       /\ \A x \in DOMAIN b.incoming : x \notin {C, T} => a.incoming[x] = b.incoming[x]
       /\ DOMAIN a.outgoing = DOMAIN b.outgoing \cup {C}
       /\ DOMAIN a.incoming = DOMAIN b.incoming \cup {C}

\* C17: when a catch C of a paired link name has no incoming and no outgoing
\* flow and some throw of that name has an outgoing flow, then with T the
\* target of the first outgoing flow of the first such throw, after the
\* splice every flow that targeted T targets C instead, T's only incoming
\* flow is one new synthetic flow C -> T named 'Link: <name>', C's only
\* outgoing flow is that synthetic flow, no other flow's source or target
\* has changed, and no second throw is used for C.
C17_SpliceEffect ==
    Collected =>
        LET proc == doc.procs[1]
        IN \A jk \in CatchPositions(proc) :
              SplicesAt(proc, jk[1], jk[2]) =>
                  LET nm == LinkNames(proc)[jk[1]]
                      grp == link_by_name(proc, nm)
                      b == SplicedUpTo(proc, jk[1], jk[2] - 1)
                  IN SpliceEffect(b, SplicedUpTo(proc, jk[1], jk[2]), nm,
                                  grp.catch[jk[2]], SpliceTarget(b, grp.throw))

\* a catch is spliced before a gateway that two authored flows lead to, the
\* flow of the throw and the flow from the start event
C17_SplicedBeforeGateway ==
    /\ Collected
    /\ LET proc == doc.procs[1]
       IN \E jk \in CatchPositions(proc) :
             /\ SplicesAt(proc, jk[1], jk[2])
             /\ LET grp == link_by_name(proc, LinkNames(proc)[jk[1]])
                    b == SplicedUpTo(proc, jk[1], jk[2] - 1)
                    T == SpliceTarget(b, grp.throw)
                IN /\ proc.elems[T].tag = "exclusiveGateway"
                   /\ Len(b.incoming[T]) = 2
                   /\ Len(Get(proc_info[1].incoming, grp.catch[jk[2]], <<>>)) = 2

(* --------------------------- dead-throw wiring ------------------------- *)
\* flows, outgoing and incoming once orphan-catch splicing is done
Spliced(proc) == SpliceOrphanCatches(proc, LinkNames(proc), Authored(proc))

\* the throw events of the link name nm whose outgoing list is empty then
DeadThrows(proc, nm) ==
    LET outs == Spliced(proc).outgoing
    IN {t \in Elems(link_by_name(proc, nm).throw) : Len(Get(outs, t, <<>>)) = 0}

\* the flows that dead-throw wiring has written: flows[flow_id] = {...} adds
\* the flow, or replaces the flow that has this id already
Wired(proc, g) ==
    LET before == Spliced(proc).flows
    IN {f \in DOMAIN g.flows : f \notin DOMAIN before \/ g.flows[f] # before[f]}

\* s is the beginning of the list t
IsPrefix(s, t) == Len(s) <= Len(t) /\ SubSeq(t, 1, Len(s)) = s

\* C18: for every throw of a paired link name whose outgoing list is empty
\* once orphan-catch splicing is done, graph repair adds exactly one
\* synthetic flow from that throw to each catch of the same name, flagged
\* is_link and named 'Link: <name>', appended to the throw's outgoing and to
\* each catch's incoming; a throw that already has an outgoing flow gets no
\* synthetic flow.
C18_DeadThrowsWired ==
    Collected =>
        LET proc == doc.procs[1]
            g == proc_info[1]
            s == Spliced(proc)
            w == Wired(proc, g)
            dead == [nm \in PairedNames(proc) |-> DeadThrows(proc, nm)]
        IN /\ DOMAIN s.flows \subseteq DOMAIN g.flows
           /\ \A f \in w :
                 /\ g.flows[f].is_link
                 /\ \E nm \in PairedNames(proc) : g.flows[f].source \in dead[nm]
           /\ \A nm \in PairedNames(proc) :
                 LET catches == link_by_name(proc, nm).catch
                 IN /\ \A t \in dead[nm] :
                          /\ Len(g.outgoing[t]) = Len(catches)
                          /\ \A k \in 1..Len(catches) :
                                /\ g.outgoing[t][k] \in w
                                /\ g.flows[g.outgoing[t][k]] =
                                       [name |-> "Link: " \o nm, source |-> t,
                                        target |-> catches[k], is_link |-> TRUE]
                                /\ \A j \in 1..Len(catches) :
                                      j # k => g.outgoing[t][j] # g.outgoing[t][k]
                          /\ {f \in DOMAIN g.flows : g.flows[f].source = t}
                                 = Elems(g.outgoing[t])
                    /\ \A t \in Elems(link_by_name(proc, nm).throw) \ dead[nm] :
                          g.outgoing[t] = s.outgoing[t]
                    /\ \A c \in Elems(catches) :
                          /\ IsPrefix(Get(s.incoming, c, <<>>), Get(g.incoming, c, <<>>))
                          /\ Elems(Get(g.incoming, c, <<>>)) \ Elems(Get(s.incoming, c, <<>>))
                                 = {f \in w : g.flows[f].target = c}
                          /\ Len(Get(g.incoming, c, <<>>)) = Len(Get(s.incoming, c, <<>>))
                                 + Cardinality(dead[nm])

\* a throw without outgoing flow has been wired to the two catch events of
\* its link name
C18_WiredToBothCatches ==
    /\ Collected
    /\ LET proc == doc.procs[1]
       IN \E t \in DeadThrows(proc, "L") :
             /\ Len(link_by_name(proc, "L").catch) = 2
             /\ Len(proc_info[1].outgoing[t]) = 2
             /\ \A c \in Elems(link_by_name(proc, "L").catch) :
                   \E f \in Elems(proc_info[1].incoming[c]) :
                       proc_info[1].flows[f].source = t /\ proc_info[1].flows[f].is_link

(* ---------------------------- lane inference --------------------------- *)
\* the unit squares a rectangle (x, y, width, height) covers
Cells(r) == (r[1]..(r[1] + r[3] - 1)) \X (r[2]..(r[2] + r[4] - 1))

\* a BPMNShape refers to the element; its Bounds
HasShape(x) == \E k \in 1..Len(doc.shapes) : doc.shapes[k].bpmnElement = x
BoundsOf(x) ==
    doc.shapes[CHOOSE k \in 1..Len(doc.shapes) : doc.shapes[k].bpmnElement = x].bounds

\* the area the shape of the node x shares with the shape of the lane l
SharedArea(x, l) == Cardinality(Cells(BoundsOf(x)) \cap Cells(BoundsOf(l.id)))

\* the area of the shape of the lane l
LaneArea(l) == BoundsOf(l.id)[3] * BoundsOf(l.id)[4]

\* the lanes of the process that list the node x in a flowNodeRef
BoundLanes(proc, x) == {k \in 1..Len(proc.lanes) : x \in proc.lanes[k].refs}

\* the lanes of the process whose shape shares the largest area with the
\* shape of x, when that area is positive
Largest(proc, x) ==
    LET shaped == {k \in 1..Len(proc.lanes) : HasShape(proc.lanes[k].id)}
    IN {k \in shaped :
           /\ SharedArea(x, proc.lanes[k]) > 0
           /\ \A j \in shaped :
                 SharedArea(x, proc.lanes[j]) <= SharedArea(x, proc.lanes[k])}

\* C19: a node bound to a lane by flowNodeRef keeps that lane whatever the
\* geometry; a node without such a binding and with known bounds that
\* overlaps at least one lane rectangle is assigned the lane with the largest
\* positive intersection area, ties broken by the smaller lane area, and the
\* assigned name carries the suffix ' (ambiguo)' exactly when more than one
\* lane has that largest intersection area.
C19_LaneInference ==
    pc = "walk" =>
        LET proc == doc.procs[pidx]
        IN \A x \in DOMAIN proc.elems :
              /\ \A k \in BoundLanes(proc, x) :
                    x \in DOMAIN node_lane /\ node_lane[x] = proc.lanes[k].name
              /\ (BoundLanes(proc, x) = {} /\ HasShape(x) /\ Largest(proc, x) # {}) =>
                    /\ x \in DOMAIN node_lane
                    /\ \E k \in Largest(proc, x) :
                          /\ \A j \in Largest(proc, x) :
                                LaneArea(proc.lanes[k]) <= LaneArea(proc.lanes[j])
                          /\ node_lane[x] =
                                 proc.lanes[k].name
                                     \o (IF Cardinality(Largest(proc, x)) > 1
                                         THEN " (ambiguo)" ELSE "")

\* task 3 shares its largest area with two lanes of different size and gets
\* the smaller one, marked ambiguous; task 4 keeps the lane that lists it
\* although its shape lies in another lane only
C19_TieAndBinding ==
    /\ pc = "walk"
    /\ LET proc == doc.procs[pidx]
       IN /\ HasShape(3)
          /\ \E k, j \in Largest(proc, 3) :
                /\ LaneArea(proc.lanes[k]) < LaneArea(proc.lanes[j])
                /\ node_lane[3] = proc.lanes[k].name \o " (ambiguo)"
          /\ HasShape(4)
          /\ \E k \in BoundLanes(proc, 4) :
                /\ SharedArea(4, proc.lanes[k]) = 0
                /\ Largest(proc, 4) # {}
                /\ node_lane[4] = proc.lanes[k].name

(* ------------------------------ read-only walk ------------------------- *)
\* a call of walk is running
Walking == pc = "walk" /\ Len(stack) > 0

\* C20: no call of walk changes nodes, flows, outgoing, incoming, node_lane
\* or artifacts (no key is added to a map by a lookup); walk only adds
\* entries to number_map and branch_state, and never removes or overwrites
\* an existing number_map entry.
C20_WalkReadsOnly ==
    [][Walking =>
          /\ proc_info' = proc_info
          /\ node_lane' = node_lane
          /\ doc' = doc
          /\ <<pidx, start_events, sidx, lines, all_lines>>'
                 = <<pidx, start_events, sidx, lines, all_lines>>
          /\ DOMAIN number_map \subseteq DOMAIN number_map'
          /\ \A x \in DOMAIN number_map : number_map'[x] = number_map[x]
          /\ DOMAIN branch_state \subseteq DOMAIN branch_state']_vars

\* a walk is over that has numbered three nodes and opened the branches of a
\* gateway; it has looked up a node that is no key of outgoing, node_lane or
\* artifacts, and the node is no key of them still
C20_MissingKeysStayMissing ==
    /\ WalkOver
    /\ Cardinality(DOMAIN number_map) = 3
    /\ DOMAIN branch_state # {}
    /\ \E x \in DOMAIN number_map :
          /\ x \notin DOMAIN outgoing
          /\ x \notin DOMAIN node_lane
          /\ x \notin DOMAIN artifacts

(* ------------------------- order of the numbers ------------------------ *)
\* the numbering a is the numbering b or comes before it
LexLessEq(a, b) == a = b \/ LexLess(a, b)

\* every numbering stored so far is at most the numbering of the call that
\* is about to run
StoredBelowCurrent ==
    (pc = "walk" /\ Len(stack) > 0 /\ top.at = "entry") =>
        \A x \in DOMAIN number_map : LexLessEq(number_map[x].parts, top.numbering)

\* no line of the walk is the marker "(avança para N)"
NoForwardMarker ==
    \A k \in 1..Len(branch_lines) : ~IsMarker(branch_lines[k], "avança para")

\* C21: within a single walk, whenever a node already in number_map is
\* reached, its stored numbering is lexicographically less than or equal to
\* the current numbering (numbers are assigned in non-decreasing
\* lexicographic order along the DFS pre-order), so no walk ever emits the
\* marker '(avança para N)'.
C21_NeverForward == StoredBelowCurrent /\ NoForwardMarker

\* the second branch of a gateway comes to a node that its first branch has
\* numbered: the stored numbering 2.1.1 is below the current 2.2.1
C21_SiblingBranch ==
    /\ AtNumbered
    /\ top.numbering = <<2, 2, 1>>
    /\ number_map[top.node_id].parts = <<2, 1, 1>>

(* ------------------------ adjacency and the flows ---------------------- *)
\* how often the flow id f occurs in a list of flow ids
Occurrences(seq, f) == Cardinality({k \in 1..Len(seq) : seq[k] = f})

\* the flow id f occurs once in the list of the key own and in no list of
\* another key of the adjacency map
OnceUnder(map, f, own) ==
    /\ Occurrences(Get(map, own, <<>>), f) = 1
    /\ \A x \in DOMAIN map : x # own => Occurrences(map[x], f) = 0

\* C22: adjacency stays consistent with the flows through graph repair: when
\* collect_elements returns (the authored flow ids being distinct), every
\* flow id f of flows occurs exactly once in outgoing[source of f], exactly
\* once in incoming[target of f], and in no other outgoing or incoming list,
\* also for flows whose target was redirected by orphan-catch splicing and
\* for synthetic flows.
C22_AdjacencyConsistent ==
    Collected =>
        LET g == proc_info[1]
        IN \A f \in DOMAIN g.flows :
              /\ OnceUnder(g.outgoing, f, g.flows[f].source)
              /\ OnceUnder(g.incoming, f, g.flows[f].target)

(* --------------------------- numbers of a block ------------------------ *)
\* the line is a numbered header: behind its indent it begins with a digit
IsNumbered(s) ==
    Len(Strip(s)) > 0 /\ SubSeq(Strip(s), 1, 1) \in {ToString(d) : d \in 0..9}

\* the dotted-decimal number of a numbered header: what stands before the
\* first ". " of the line
RECURSIVE NumberUpTo(_, _)
NumberUpTo(s, i) ==
    IF i >= Len(s) \/ SubSeq(s, i, i + 1) = ". " THEN SubSeq(s, 1, i - 1)
    ELSE NumberUpTo(s, i + 1)
HeaderNumber(s) == NumberUpTo(Strip(s), 1)

\* the lines of the block of the process that is being walked
Block == lines \o branch_lines

\* C23: in the rendered block of one process, no two numbered header lines
\* carry the same dotted-decimal number, also when the process has several
\* start events (the i-th start event is walked from numbering [i] with a
\* fresh number_map and a fresh branch_state).
C23_UniqueNumbers ==
    pc = "walk" =>
        \A j, k \in 1..Len(Block) :
            (j < k /\ IsNumbered(Block[j]) /\ IsNumbered(Block[k]))
                => HeaderNumber(Block[j]) # HeaderNumber(Block[k])

=========================================================================
